---- MODULE Spec2Model ----
(***************************************************************************)
(* A model of the 3D-print quoting application: the mesh geometry analyser *)
(* of components/ThreeDViewer.tsx, the print simulator                     *)
(* calculateQuoteLocally and the wizard of the App component.              *)
(*                                                                         *)
(* Numbers.  The program computes in floating point.  The model computes   *)
(* exactly, in the field Q(sqrt 2): a number is a triple <<a, b, d>> that  *)
(* stands for (a + b*sqrt(2)) / d, with d > 0 and gcd(a, b, d) = 1.  The   *)
(* rationals are the numbers with b = 0; the sqrt(2) part is needed for    *)
(* the bounding box of a mesh turned in steps of 45 degrees.               *)
(***************************************************************************)
EXTENDS Integers, Sequences, FiniteSets, TLC

VARIABLES
    \* The print simulator, called as a pure function
    simArgs,      \* the arguments of calculateQuoteLocally
    simOut,       \* Null, or what the call on simArgs returned or threw
    simPrev,      \* Null, or the arguments and the outcome of the call before
    simChanges    \* how many times an argument has been changed

VARIABLES
    \* The mesh geometry analyser, called on a loaded model
    gModel,       \* the loaded model: the sequence of the geometries of its meshes
    gData,        \* Null, or what the geometry effect reported for gModel
    gBase,        \* Null, or what it reported for the model as first loaded
    gShift,       \* the translation applied to the model since it was loaded
    gScale        \* the scale factor applied to the model since it was loaded

VARIABLES
    \* The state of the App component (the wizard)
    step,                      \* "UPLOAD", "ANALYZE", "OPTIONS" or "QUOTE"
    status,                    \* an AppStatus
    file,                      \* Null, or the selected file (modelUrl is set with it)
    validationResult,          \* Null, or the analysis result the simulator consumes
    originalValidationResult,  \* Null, or the result as the analysis stored it
    rotation,                  \* the Euler angles of the model, in steps of 45 degrees
    apiError,                  \* Null, or the error message shown
    analysisStarted,           \* the ref analysisStarted.current
    aiSupportPercent,          \* Null, or the support percentage the advisor estimated
    rawQuote,                  \* Null, or the simulation result of the last quote
    selectedMaterialId,        \* the id of the selected material
    \* The state of the ThreeDViewer component
    modelData,                 \* Null, or the geometry reported when the model was loaded
    analysisTriggered,         \* the ref analysisTriggered.current
    dimsTimer,                 \* the 50 ms timer of the rotation effect is pending
    \* The environment
    calls,                     \* the asynchronous handlers waiting for the advisor
    uploads                    \* how many files have been selected

VARIABLES
    \* The pricing engine of the App component, run on a simulation result
    pMaterial,    \* the selected material
    pRawQuote,    \* Null, or the simulation result (the state rawQuote)
    quoteData,    \* Null, or the per-unit costs and price of the last quote
    quotedOptions,\* Null, or the options recorded with the last quote
    quantity,     \* the number of units
    language,     \* "fa" (amounts in Toman) or "en" (amounts in USD)
    pricingTiers, \* settings.pricingTiers, an array the price memo sorts in place
    prices        \* the price memo: its locals and the value it returned

VARIABLES
    \* The settings in memory and in the browser's storage, and the admin panel
    heap,          \* the objects and arrays the settings are made of, by address
    appSettings,   \* the address of the App component's settings
    panelSettings, \* Null, or the address of the settings the open panel edits
    localStorage,  \* Null, or the item stored under SETTINGS_STORAGE_KEY
    opened,        \* Null, or the settings as they were when the panel was opened
    savedSettings, \* Null, or the settings handed to the last Save, those the
                   \* panel was opened on, and whether they were edited
    edits,         \* how many edits have been made in the panel
    opens          \* how many times the panel has been opened

VARIABLES
    \* The scene memo of the Model component, run on the loaded model gModel
    sceneRotation,        \* the prop rotation, in steps of 45 degrees
    highlightingEnabled,  \* the prop highlightingEnabled: the step is not UPLOAD
    hasErrors,            \* the analysis result lists errors
    sceneColors           \* per mesh: Null, or the colors given to its facets

VARIABLES
    \* The print options selected in the App component
    selectedNozzleId,     \* the id of the selected nozzle
    selectedLayerHeight,  \* the selected layer height, in mm
    selectedInfill,       \* the selected infill percentage
    selectedWallCount,    \* the selected number of walls
    optionChanges         \* how many times an option has been changed

simVars == <<simArgs, simOut, simPrev, simChanges>>
geomVars == <<gModel, gData, gBase, gShift, gScale>>
appVars ==
    <<step, status, file, validationResult, originalValidationResult, rotation, apiError,
      analysisStarted, aiSupportPercent, rawQuote, selectedMaterialId>>
viewerVars == <<modelData, analysisTriggered, dimsTimer>>
wizVars == <<appVars, viewerVars, calls, uploads>>
priceVars ==
    <<pMaterial, pRawQuote, quoteData, quotedOptions, quantity, language, pricingTiers,
      prices>>
adminVars ==
    <<heap, appSettings, panelSettings, localStorage, opened, savedSettings, edits,
      opens>>
sceneVars == <<sceneRotation, highlightingEnabled, hasErrors, sceneColors>>
optionVars ==
    <<selectedNozzleId, selectedLayerHeight, selectedInfill, selectedWallCount,
      optionChanges>>
vars == <<simVars, geomVars, wizVars, priceVars, adminVars, sceneVars, optionVars>>

----------------------------------------------------------------------------
(* Exact arithmetic *)

Abs(n) == IF n < 0 THEN -n ELSE n
Sgn(n) == IF n > 0 THEN 1 ELSE IF n < 0 THEN -1 ELSE 0

RECURSIVE Gcd(_, _)
Gcd(m, n) == IF n = 0 THEN Abs(m) ELSE Gcd(n, m % n)

\* Two values that are not numbers of the field, both with denominator 0:
\* NaN stands for the program's non-finite values (a division by zero leaves
\* Infinity or NaN); TooBig is a limit of the model, not a value of the program:
\* an exact result whose numerator or denominator does not fit the model's
\* integers.  Every operation on one of them gives it back, TooBig first.
NaN == <<0, 0, 0>>
TooBig == <<1, 0, 0>>
IsFinite(x) == x[3] # 0
Representable(x) == x # TooBig
Taint(x, y) == IF x = TooBig \/ y = TooBig THEN TooBig ELSE NaN

\* The product of m and n stays within 2^29, so that a sum of three such
\* products is an integer of the model.
Fits(m, n) == m = 0 \/ n = 0 \/ Abs(m) <= 536870912 \div Abs(n)

Norm(a, b, d) ==
    IF d = 0 THEN NaN
    ELSE LET g == Gcd(Gcd(Abs(a), Abs(b)), Abs(d))
             s == IF d < 0 THEN -1 ELSE 1
         IN  <<(s * a) \div g, (s * b) \div g, (s * d) \div g>>

Q(n, d) == Norm(n, 0, d)
I(n) == <<n, 0, 1>>
Zero == I(0)
One == I(1)

\* Common factors are cancelled before multiplying, to keep the integers small.
NAdd(x, y) ==
    IF x[3] = 0 \/ y[3] = 0 THEN Taint(x, y)
    ELSE LET g == Gcd(x[3], y[3])
             p == y[3] \div g
             q == x[3] \div g
         IN  IF Fits(x[1], p) /\ Fits(y[1], q) /\ Fits(x[2], p) /\ Fits(y[2], q)
                /\ Fits(x[3], p)
             THEN Norm(x[1] * p + y[1] * q, x[2] * p + y[2] * q, x[3] * p)
             ELSE TooBig
NNeg(x) == IF x[3] = 0 THEN x ELSE <<-x[1], -x[2], x[3]>>
NSub(x, y) == NAdd(x, NNeg(y))
NMul(x, y) ==
    IF x[3] = 0 \/ y[3] = 0 THEN Taint(x, y)
    ELSE LET g == Gcd(Gcd(Abs(x[1]), Abs(x[2])), y[3])
             h == Gcd(Gcd(Abs(y[1]), Abs(y[2])), x[3])
             gg == IF g = 0 THEN 1 ELSE g
             hh == IF h = 0 THEN 1 ELSE h
             a == x[1] \div gg
             b == x[2] \div gg
             c == y[1] \div hh
             e == y[2] \div hh
             m == x[3] \div hh
             n == y[3] \div gg
         IN  IF Fits(a, c) /\ Fits(2 * b, e) /\ Fits(a, e) /\ Fits(b, c) /\ Fits(m, n)
             THEN Norm(a * c + 2 * b * e, a * e + b * c, m * n)
             ELSE TooBig
\* 1 / ((a + b r)/d) = d (a - b r) / (a^2 - 2 b^2); a division by 0 gives NaN.
NInv(x) ==
    IF x[3] = 0 THEN x
    ELSE IF x[1] = 0 /\ x[2] = 0 THEN NaN
    ELSE IF x[2] = 0 THEN Norm(x[3], 0, x[1])
    ELSE IF ~(Fits(x[1], x[1]) /\ Fits(2 * x[2], x[2])) THEN TooBig
    ELSE LET n == x[1] * x[1] - 2 * x[2] * x[2]
             g == Gcd(x[3], Abs(n))
             k == x[3] \div g
         IN  IF Fits(k, x[1]) /\ Fits(k, x[2])
             THEN Norm(k * x[1], -(k * x[2]), n \div g)
             ELSE TooBig
NDiv(x, y) == NMul(x, NInv(y))

\* The sign of a - b*sqrt(2) for integers a >= 0 and b >= 0: with a = b + r
\* and 0 < r < b it is the sign of r*sqrt(2) - (b - r), two smaller integers.
RECURSIVE SignRoot2(_, _)
SignRoot2(a, b) ==
    IF b = 0 THEN Sgn(a)
    ELSE IF a >= 2 * b THEN 1
    ELSE IF a <= b THEN -1
    ELSE -SignRoot2(2 * b - a, a - b)

\* The sign of a number can be told.
SignKnown(x) == x[3] # 0
\* The sign of a + b*sqrt(2): -1, 0 or 1.
NSign(x) ==
    LET a == x[1]
        b == x[2]
    IN  IF Sgn(a) = Sgn(b) \/ b = 0 THEN Sgn(a)
        ELSE IF a = 0 THEN Sgn(b)
        ELSE IF a > 0 THEN SignRoot2(a, -b) ELSE -SignRoot2(-a, b)

\* x and y are numbers and the model can compare them.
Comparable(x, y) == IsFinite(x) /\ IsFinite(y) /\ SignKnown(NSub(x, y))
\* A comparison with a non-finite value is false, as with NaN.
NLess(x, y) == Comparable(x, y) /\ NSign(NSub(x, y)) < 0
NLeq(x, y) == Comparable(x, y) /\ NSign(NSub(x, y)) <= 0
NMax(x, y) == IF NLess(x, y) THEN y ELSE x
NMin(x, y) == IF NLess(y, x) THEN y ELSE x
NAbs(x) == IF NSign(x) < 0 THEN NNeg(x) ELSE x
IsRational(x) == x[2] = 0

\* Math.ceil of a rational number.
NCeil(x) == IF IsFinite(x) THEN I(-((-x[1]) \div x[3])) ELSE x

\* An optional value: <<>> when absent (undefined or null), <<v>> otherwise.
Null == <<>>
Some(v) == <<v>>

----------------------------------------------------------------------------
(* settings.ts: the material and process parameter tables *)

Material(id, toman, usd, density, speedMod, maxFlow) ==
    [id |-> id, price_per_kg |-> [toman |-> I(toman), usd |-> I(usd)],
     density_g_cm3 |-> density, speed_modifier_percent |-> I(speedMod),
     max_flow_rate_mm3_s |-> maxFlow]

Option(id, value) == [id |-> id, value |-> value]

\* Infinity, the upper bound of an open pricing tier: a third value with
\* denominator 0.  The pricing code only compares with it.
Infinity == <<0, 1, 0>>

PricingTier(id, from, to, discount) ==
    [id |-> id, from_hours |-> from, to_hours |-> to, discount_percent |-> I(discount)]

DEFAULT_SETTINGS ==
    [materials |-> << Material("pla", 1700000, 28, Q(124, 100), 0, Some(I(20))),
                      Material("abs", 1000000, 17, Q(104, 100), -10, Some(I(18))),
                      Material("petg", 1700000, 28, Q(127, 100), 5, Some(I(15))),
                      Material("tpu", 2300000, 38, Q(120, 100), -25, Some(I(8))) >>,
     nozzles |-> << Option("0.25", Q(25, 100)), Option("0.4", Q(4, 10)),
                    Option("0.6", Q(6, 10)) >>,
     layerHeights |-> << Option("0.16", Q(16, 100)), Option("0.20", Q(20, 100)),
                         Option("0.28", Q(28, 100)), Option("0.36", Q(36, 100)) >>,
     infills |-> << Option("15", I(15)), Option("30", I(30)), Option("50", I(50)) >>,
     wallCounts |-> << Option("2", I(2)), Option("3", I(3)), Option("4", I(4)) >>,
     pricingTiers |-> << PricingTier("tier1", I(0), I(500), 0),
                         PricingTier("tier2", I(500), I(1500), 10),
                         PricingTier("tier3", I(1500), I(2500), 20),
                         PricingTier("tier4", I(2500), Infinity, 30) >>,
     machineRatePerHour |-> [toman |-> I(110000), usd |-> Q(18, 10)],
     speed_wall_mm_s |-> I(70),
     speed_infill_mm_s |-> I(100),
     speed_top_bottom_mm_s |-> I(50),
     speed_travel_mm_s |-> I(200),
     support_overhead_percent |-> I(10),
     acceleration_overhead_factor |-> Q(115, 100)]

Range(seq) == {seq[i] : i \in DOMAIN seq}

----------------------------------------------------------------------------
(* calculateQuoteLocally: the flow-limited speed model and the print simulator *)

\* JavaScript truthiness of an optional number: present, not 0 and not NaN.
Truthy(opt) == opt # Null /\ IsFinite(opt[1]) /\ opt[1] # Zero

\* Math.max(a, b): NaN when either is.
\* Mutant: the second argument is returned, whatever the first is.
MathMax_Second(x, y) == y

MathMax(x, y) ==
    IF ~IsFinite(x) \/ ~IsFinite(y) THEN Taint(x, y)
    ELSE IF ~Comparable(x, y) THEN TooBig
    ELSE NMax(x, y)

Threw(msg) == [threw |-> TRUE, message |-> msg, value |-> Null]
Returned(v) == [threw |-> FALSE, message |-> "", value |-> Some(v)]

\* Mutant: the ratio is taken whenever a ceiling is set, without the test that
\* the theoretical rate exceeds it.
speedScalingFactorOf_Unguarded(material, nozzleDiameter, layerHeight, settings) ==
    LET line_width_mm == NMul(nozzleDiameter, Q(12, 10))
        maxFlowRate == material.max_flow_rate_mm3_s
        theoreticalFlowRate == NMul(NMul(layerHeight, line_width_mm), settings.speed_infill_mm_s)
    IN  IF Truthy(maxFlowRate)
        THEN NDiv(maxFlowRate[1], theoreticalFlowRate)
        ELSE One

\* Mutant: comparison and ratio are both the wrong way round, so that the
\* speeds are derated below the ceiling instead of above it.
speedScalingFactorOf_Inverted(material, nozzleDiameter, layerHeight, settings) ==
    LET line_width_mm == NMul(nozzleDiameter, Q(12, 10))
        maxFlowRate == material.max_flow_rate_mm3_s
        theoreticalFlowRate == NMul(NMul(layerHeight, line_width_mm), settings.speed_infill_mm_s)
    IN  IF Truthy(maxFlowRate) /\ NLess(theoreticalFlowRate, maxFlowRate[1])
        THEN NDiv(theoreticalFlowRate, maxFlowRate[1])
        ELSE One

\* The speed scaling factor, lines 163-173.
speedScalingFactorOf(material, nozzleDiameter, layerHeight, settings) ==
    LET line_width_mm == NMul(nozzleDiameter, Q(12, 10))
        maxFlowRate == material.max_flow_rate_mm3_s
        theoreticalFlowRate == NMul(NMul(layerHeight, line_width_mm), settings.speed_infill_mm_s)
    IN  IF theoreticalFlowRate = TooBig THEN TooBig
        ELSE IF Truthy(maxFlowRate) /\ NLess(maxFlowRate[1], theoreticalFlowRate)
        THEN NDiv(maxFlowRate[1], theoreticalFlowRate)
        ELSE One

\* The stages of calculateQuoteLocally, last stage first.  A value the code
\* names once and reads several times is a parameter of the stage that reads it.

\* Mutant: the support volume is computed and not added.
QuoteEstimate_NoSupportVolume(time_hours, speedScalingFactor, material_density_g_cm3, supportPercent, model_volume_cm3) ==
    LET support_volume_cm3 == NMul(model_volume_cm3, NDiv(supportPercent, I(100)))
        final_volume_cm3 == model_volume_cm3
        material_grams == NMul(final_volume_cm3, material_density_g_cm3)
    IN  Returned([time_hours |-> time_hours, material_grams |-> material_grams,
                  speedScalingFactor |-> speedScalingFactor])

\* Lines 222-227: the support material, the weight and the returned estimate.
QuoteEstimate(time_hours, speedScalingFactor, material_density_g_cm3, supportPercent, model_volume_cm3) ==
    LET support_volume_cm3 == NMul(model_volume_cm3, NDiv(supportPercent, I(100)))
        final_volume_cm3 == NAdd(model_volume_cm3, support_volume_cm3)
        material_grams == NMul(final_volume_cm3, material_density_g_cm3)
    IN  Returned([time_hours |-> time_hours, material_grams |-> material_grams,
                  speedScalingFactor |-> speedScalingFactor])

\* Mutant: the support time is taken on the travel time as well.
TotalMaterialCalculation_SupportOnTravel(material, layerHeight, settings, supportPercent, line_width_mm, speedScalingFactor, num_layers, wall_path_length_per_layer_mm, infill_path_length_per_layer_mm, solid_layer_path_length_mm, num_top_bottom_layers, total_print_time_s, time_travel_s) ==
    LET speed_modifier == NSub(One, NDiv(material.speed_modifier_percent, I(100)))
        time_support_s ==
            NMul(NAdd(total_print_time_s, time_travel_s), NDiv(supportPercent, I(100)))
        base_time_s == NAdd(NAdd(total_print_time_s, time_travel_s), time_support_s)
        final_time_s ==
            NMul(NMul(base_time_s, settings.acceleration_overhead_factor), speed_modifier)
        time_hours == NDiv(final_time_s, I(3600))
        wall_volume_mm3 ==
            NMul(NMul(NMul(wall_path_length_per_layer_mm, line_width_mm), layerHeight),
                 num_layers)
        infill_volume_mm3 ==
            NMul(NMul(NMul(infill_path_length_per_layer_mm, line_width_mm), layerHeight),
                 num_layers)
        top_bottom_volume_mm3 ==
            NMul(NMul(NMul(solid_layer_path_length_mm, line_width_mm), layerHeight),
                 num_top_bottom_layers)
        model_volume_cm3 ==
            NDiv(NAdd(NAdd(wall_volume_mm3, infill_volume_mm3), top_bottom_volume_mm3),
                 I(1000))
    IN  QuoteEstimate(time_hours, speedScalingFactor, material.density_g_cm3,
                      supportPercent, model_volume_cm3)

\* Mutant: the solid-layer volume is taken over every layer, not over the top
\* and bottom layers.
TotalMaterialCalculation_TopBottomByLayers(material, layerHeight, settings, supportPercent, line_width_mm, speedScalingFactor, num_layers, wall_path_length_per_layer_mm, infill_path_length_per_layer_mm, solid_layer_path_length_mm, num_top_bottom_layers, total_print_time_s, time_travel_s) ==
    LET speed_modifier == NSub(One, NDiv(material.speed_modifier_percent, I(100)))
        time_support_s == NMul(total_print_time_s, NDiv(supportPercent, I(100)))
        base_time_s == NAdd(NAdd(total_print_time_s, time_travel_s), time_support_s)
        final_time_s ==
            NMul(NMul(base_time_s, settings.acceleration_overhead_factor), speed_modifier)
        time_hours == NDiv(final_time_s, I(3600))
        wall_volume_mm3 ==
            NMul(NMul(NMul(wall_path_length_per_layer_mm, line_width_mm), layerHeight),
                 num_layers)
        infill_volume_mm3 ==
            NMul(NMul(NMul(infill_path_length_per_layer_mm, line_width_mm), layerHeight),
                 num_layers)
        top_bottom_volume_mm3 ==
            NMul(NMul(NMul(solid_layer_path_length_mm, line_width_mm), layerHeight),
                 num_layers)
        model_volume_cm3 ==
            NDiv(NAdd(NAdd(wall_volume_mm3, infill_volume_mm3), top_bottom_volume_mm3),
                 I(1000))
    IN  QuoteEstimate(time_hours, speedScalingFactor, material.density_g_cm3,
                      supportPercent, model_volume_cm3)

\* Lines 204-219: support time, overheads, and the extruded volume of the model.
TotalMaterialCalculation(material, layerHeight, settings, supportPercent, line_width_mm, speedScalingFactor, num_layers, wall_path_length_per_layer_mm, infill_path_length_per_layer_mm, solid_layer_path_length_mm, num_top_bottom_layers, total_print_time_s, time_travel_s) ==
    LET speed_modifier == NSub(One, NDiv(material.speed_modifier_percent, I(100)))
        time_support_s == NMul(total_print_time_s, NDiv(supportPercent, I(100)))
        base_time_s == NAdd(NAdd(total_print_time_s, time_travel_s), time_support_s)
        final_time_s ==
            NMul(NMul(base_time_s, settings.acceleration_overhead_factor), speed_modifier)
        time_hours == NDiv(final_time_s, I(3600))
        wall_volume_mm3 ==
            NMul(NMul(NMul(wall_path_length_per_layer_mm, line_width_mm), layerHeight),
                 num_layers)
        infill_volume_mm3 ==
            NMul(NMul(NMul(infill_path_length_per_layer_mm, line_width_mm), layerHeight),
                 num_layers)
        top_bottom_volume_mm3 ==
            NMul(NMul(NMul(solid_layer_path_length_mm, line_width_mm), layerHeight),
                 num_top_bottom_layers)
        model_volume_cm3 ==
            NDiv(NAdd(NAdd(wall_volume_mm3, infill_volume_mm3), top_bottom_volume_mm3),
                 I(1000))
    IN  QuoteEstimate(time_hours, speedScalingFactor, material.density_g_cm3,
                      supportPercent, model_volume_cm3)

\* Lines 176-202: the derated speeds and the time of walls, infill, solid
\* layers and travel.
TotalTimeCalculation(dims_mm, material, layerHeight, settings, supportPercent, line_width_mm, speedScalingFactor, num_layers, wall_path_length_per_layer_mm, infill_path_length_per_layer_mm, solid_layer_path_length_mm, num_top_bottom_layers) ==
    LET effective_speed_wall_mm_s == NMul(settings.speed_wall_mm_s, speedScalingFactor)
        effective_speed_infill_mm_s == NMul(settings.speed_infill_mm_s, speedScalingFactor)
        effective_speed_top_bottom_mm_s ==
            NMul(settings.speed_top_bottom_mm_s, speedScalingFactor)
        time_walls_s ==
            NDiv(NMul(wall_path_length_per_layer_mm, num_layers), effective_speed_wall_mm_s)
        time_infill_s ==
            NDiv(NMul(infill_path_length_per_layer_mm, num_layers), effective_speed_infill_mm_s)
        time_top_bottom_s ==
            NDiv(NMul(solid_layer_path_length_mm, num_top_bottom_layers),
                 effective_speed_top_bottom_mm_s)
        time_travel_s ==
            NDiv(NMul(num_layers, NMul(NAdd(dims_mm.x, dims_mm.y), Q(1, 2))),
                 settings.speed_travel_mm_s)
        total_print_time_s == NAdd(NAdd(time_walls_s, time_infill_s), time_top_bottom_s)
    IN  TotalMaterialCalculation(material, layerHeight, settings, supportPercent,
                                 line_width_mm, speedScalingFactor, num_layers,
                                 wall_path_length_per_layer_mm,
                                 infill_path_length_per_layer_mm,
                                 solid_layer_path_length_mm, num_top_bottom_layers,
                                 total_print_time_s, time_travel_s)

\* Mutant: an infill percentage of 0 is replaced by a default of 20, as
\* infillPercent || 20 would.
PathLengthEstimations_DefaultInfill(dims_mm, material, nozzleDiameter, layerHeight, infillPercent, wallCount, settings, supportPercent, line_width_mm, speedScalingFactor, num_layers, avg_layer_area_mm2, wall_path_length_per_layer_mm) ==
    LET top_bottom_thickness_mm == NMul(nozzleDiameter, wallCount)
        wall_area_per_layer_mm2 == NMul(wall_path_length_per_layer_mm, line_width_mm)
        infill_area_per_layer_mm2 ==
            MathMax(Zero, NSub(avg_layer_area_mm2, wall_area_per_layer_mm2))
        infill_path_length_per_layer_mm ==
            NDiv(NMul(infill_area_per_layer_mm2,
                      NDiv(IF infillPercent = Zero THEN I(20) ELSE infillPercent, I(100))),
                 line_width_mm)
        num_top_bottom_layers ==
            NMul(NCeil(NDiv(top_bottom_thickness_mm, layerHeight)), I(2))
        solid_layer_path_length_mm == NDiv(avg_layer_area_mm2, line_width_mm)
    IN  TotalTimeCalculation(dims_mm, material, layerHeight, settings, supportPercent,
                             line_width_mm, speedScalingFactor, num_layers,
                             wall_path_length_per_layer_mm,
                             infill_path_length_per_layer_mm,
                             solid_layer_path_length_mm, num_top_bottom_layers)

\* Mutant: the infill percentage is ignored and every layer is filled solid.
PathLengthEstimations_SolidInfill(dims_mm, material, nozzleDiameter, layerHeight, infillPercent, wallCount, settings, supportPercent, line_width_mm, speedScalingFactor, num_layers, avg_layer_area_mm2, wall_path_length_per_layer_mm) ==
    LET top_bottom_thickness_mm == NMul(nozzleDiameter, wallCount)
        wall_area_per_layer_mm2 == NMul(wall_path_length_per_layer_mm, line_width_mm)
        infill_area_per_layer_mm2 ==
            MathMax(Zero, NSub(avg_layer_area_mm2, wall_area_per_layer_mm2))
        infill_path_length_per_layer_mm ==
            NDiv(infill_area_per_layer_mm2, line_width_mm)
        num_top_bottom_layers ==
            NMul(NCeil(NDiv(top_bottom_thickness_mm, layerHeight)), I(2))
        solid_layer_path_length_mm == NDiv(avg_layer_area_mm2, line_width_mm)
    IN  TotalTimeCalculation(dims_mm, material, layerHeight, settings, supportPercent,
                             line_width_mm, speedScalingFactor, num_layers,
                             wall_path_length_per_layer_mm,
                             infill_path_length_per_layer_mm,
                             solid_layer_path_length_mm, num_top_bottom_layers)

\* Lines 188-192 (and 161): the infill and solid-layer path of one layer and
\* the number of solid layers.
PathLengthEstimations(dims_mm, material, nozzleDiameter, layerHeight, infillPercent, wallCount, settings, supportPercent, line_width_mm, speedScalingFactor, num_layers, avg_layer_area_mm2, wall_path_length_per_layer_mm) ==
    LET top_bottom_thickness_mm == NMul(nozzleDiameter, wallCount)
        wall_area_per_layer_mm2 == NMul(wall_path_length_per_layer_mm, line_width_mm)
        infill_area_per_layer_mm2 ==
            MathMax(Zero, NSub(avg_layer_area_mm2, wall_area_per_layer_mm2))
        infill_path_length_per_layer_mm ==
            NDiv(NMul(infill_area_per_layer_mm2, NDiv(infillPercent, I(100))), line_width_mm)
        num_top_bottom_layers ==
            NMul(NCeil(NDiv(top_bottom_thickness_mm, layerHeight)), I(2))
        solid_layer_path_length_mm == NDiv(avg_layer_area_mm2, line_width_mm)
    IN  TotalTimeCalculation(dims_mm, material, layerHeight, settings, supportPercent,
                             line_width_mm, speedScalingFactor, num_layers,
                             wall_path_length_per_layer_mm,
                             infill_path_length_per_layer_mm,
                             solid_layer_path_length_mm, num_top_bottom_layers)

\* Lines 180-187: the number of layers, the area of a layer and the wall path
\* of one layer.
LayerBasedEstimations(dims_mm, total_volume_cm3, material, nozzleDiameter, layerHeight, infillPercent, wallCount, settings, supportPercent, line_width_mm, speedScalingFactor) ==
    LET num_layers == NDiv(dims_mm.z, layerHeight)
        avg_layer_area_mm2 == NDiv(NMul(total_volume_cm3, I(1000)), dims_mm.z)
        avg_perimeter_mm == NMul(I(2), NAdd(dims_mm.x, dims_mm.y))
        wall_path_length_per_layer_mm == NMul(avg_perimeter_mm, wallCount)
    IN  PathLengthEstimations(dims_mm, material, nozzleDiameter, layerHeight,
                              infillPercent, wallCount, settings, supportPercent,
                              line_width_mm, speedScalingFactor, num_layers,
                              avg_layer_area_mm2, wall_path_length_per_layer_mm)

\* Lines 140-173: the geometry guard, the line width and the speed scaling
\* factor; the estimate is the result of the stages above.
calculateQuoteLocally(result, material, nozzleDiameter, layerHeight, infillPercent, wallCount, settings, supportPercent) ==
    IF ~Truthy(result.volume_cm3) \/ result.dimensions_mm = Null
    THEN Threw("Cannot calculate quote without model geometry.")
    ELSE LayerBasedEstimations(
             result.dimensions_mm[1], result.volume_cm3[1], material, nozzleDiameter,
             layerHeight, infillPercent, wallCount, settings, supportPercent,
             NMul(nozzleDiameter, Q(12, 10)),
             speedScalingFactorOf(material, nozzleDiameter, layerHeight, settings))

----------------------------------------------------------------------------
(* The simulator as a pure function: the arguments are drawn from the        *)
(* option tables, a call is made, one argument is changed, a call is made.   *)

\* How many arguments are changed after the first call.
MaxChanges == 1

Dims(x, y, z) == [x |-> x, y |-> y, z |-> z]

ValidationResult(printable, repairable, volume, dims) ==
    [is_printable |-> printable, is_repairable |-> repairable,
     volume_cm3 |-> volume, dimensions_mm |-> dims]

\* A 100 mm cube, a 30 x 20 x 10 box, a 3 x 3 x 28 rod (its walls alone exceed
\* the layer), and results whose geometry is absent or zero.
SimValidationResults ==
    { ValidationResult(TRUE, FALSE, Some(I(1000)), Some(Dims(I(100), I(100), I(100)))),
      ValidationResult(TRUE, FALSE, Some(I(6)), Some(Dims(I(30), I(20), I(10)))),
      ValidationResult(TRUE, FALSE, Some(Q(252, 1000)), Some(Dims(I(3), I(3), I(28)))),
      ValidationResult(TRUE, FALSE, Null, Some(Dims(I(100), I(100), I(100)))),
      ValidationResult(TRUE, FALSE, Some(Zero), Some(Dims(Zero, Zero, Zero))),
      ValidationResult(TRUE, FALSE, Some(I(1000)), Null) }

\* The default materials, a material without a maximum flow rate (the field is
\* optional in types.ts) and one whose maximum flow rate is 0 (what the admin
\* panel stores for an emptied field).
SimMaterials ==
    Range(DEFAULT_SETTINGS.materials)
        \cup { Material("noflow", 1000000, 20, Q(12, 10), 0, Null),
               Material("zeroflow", 1000000, 20, Q(12, 10), 0, Some(Zero)) }

SimInfillSpeeds == {I(50), I(100), I(150), I(200)}
\* No infill, the default options and an option of 20%.
SimInfills == {Zero, I(20)} \cup {o.value : o \in Range(DEFAULT_SETTINGS.infills)}
SimSupportPercents == {Zero, I(25)}

\* Each specification runs one part of the program; the others stand still.
SimIdle == simArgs = Null /\ simOut = Null /\ simPrev = Null /\ simChanges = 0
GeomIdle ==
    gModel = <<>> /\ gData = Null /\ gBase = Null /\ gShift = <<0, 0, 0>> /\ gScale = 1

WizIdle ==
    /\ step = "UPLOAD" /\ status = "IDLE" /\ file = Null
    /\ validationResult = Null /\ originalValidationResult = Null
    /\ rotation = <<0, 0, 0>> /\ apiError = Null /\ analysisStarted = FALSE
    /\ aiSupportPercent = Null /\ rawQuote = Null /\ selectedMaterialId = "pla"
    /\ modelData = Null /\ analysisTriggered = FALSE /\ dimsTimer = FALSE
    /\ calls = {} /\ uploads = 0

PriceIdle ==
    /\ pMaterial = Null /\ pRawQuote = Null /\ quoteData = Null /\ quotedOptions = Null
    /\ quantity = 1 /\ language = "fa" /\ pricingTiers = <<>> /\ prices = Null

AdminIdle ==
    /\ heap = <<>> /\ appSettings = 0 /\ panelSettings = Null /\ localStorage = Null
    /\ opened = Null /\ savedSettings = Null /\ edits = 0 /\ opens = 0

SceneIdle ==
    /\ sceneRotation = <<0, 0, 0>> /\ highlightingEnabled = FALSE /\ hasErrors = FALSE
    /\ sceneColors = <<>>

\* The selections the wizard starts with and handleReset restores.
OptionsIdle ==
    /\ selectedNozzleId = "0.4"
    /\ selectedLayerHeight = DEFAULT_SETTINGS.layerHeights[2].value
    /\ selectedInfill = DEFAULT_SETTINGS.infills[2].value
    /\ selectedWallCount = DEFAULT_SETTINGS.wallCounts[1].value
    /\ optionChanges = 0

SimInit ==
    /\ OptionsIdle
    /\ GeomIdle
    /\ WizIdle
    /\ PriceIdle
    /\ AdminIdle
    /\ SceneIdle
    /\ simArgs \in
         [validationResult : SimValidationResults,
          material : SimMaterials,
          nozzleDiameter : {o.value : o \in Range(DEFAULT_SETTINGS.nozzles)},
          layerHeight : {o.value : o \in Range(DEFAULT_SETTINGS.layerHeights)},
          infillPercent : {I(20), DEFAULT_SETTINGS.infills[2].value},
          wallCount : {DEFAULT_SETTINGS.wallCounts[1].value},
          settings : {DEFAULT_SETTINGS},
          supportPercent : SimSupportPercents]
    /\ simOut = Null
    /\ simPrev = Null
    /\ simChanges = 0

SimCall(a) ==
    calculateQuoteLocally(a.validationResult, a.material, a.nozzleDiameter, a.layerHeight,
                          a.infillPercent, a.wallCount, a.settings, a.supportPercent)

SimCalculate ==
    /\ simOut = Null
    /\ simOut' = Some(SimCall(simArgs))
    /\ UNCHANGED <<simArgs, simPrev, simChanges>>

SimChange(newArgs) ==
    /\ simOut # Null
    /\ simChanges < MaxChanges
    /\ newArgs # simArgs
    /\ simPrev' = Some([args |-> simArgs, out |-> simOut[1]])
    /\ simArgs' = newArgs
    /\ simOut' = Null
    /\ simChanges' = simChanges + 1

SimSetInfillSpeed ==
    \E v \in SimInfillSpeeds :
        SimChange([simArgs EXCEPT !.settings.speed_infill_mm_s = v])

SimSetInfill ==
    \E v \in SimInfills : SimChange([simArgs EXCEPT !.infillPercent = v])

SimSetSupportPercent ==
    \E v \in SimSupportPercents : SimChange([simArgs EXCEPT !.supportPercent = v])

SimNext ==
    \/ SimCalculate /\ UNCHANGED <<geomVars, wizVars, priceVars, adminVars, sceneVars, optionVars>>
    \/ SimSetInfillSpeed /\ UNCHANGED <<geomVars, wizVars, priceVars, adminVars, sceneVars, optionVars>>
    \/ SimSetInfill /\ UNCHANGED <<geomVars, wizVars, priceVars, adminVars, sceneVars, optionVars>>
    \/ SimSetSupportPercent /\ UNCHANGED <<geomVars, wizVars, priceVars, adminVars, sceneVars, optionVars>>

SimSpec == SimInit /\ [][SimNext]_vars

----------------------------------------------------------------------------
(* Properties of the flow-limited speed model, checked under SimSpec *)

SimReturned == simOut # Null /\ ~simOut[1].threw
SimFactor == simOut[1].value[1].speedScalingFactor
SimGeometryPresent ==
    /\ simArgs.validationResult.volume_cm3 # Null
    /\ simArgs.validationResult.volume_cm3 # Some(Zero)
    /\ simArgs.validationResult.dimensions_mm # Null

\* layer_height x (nozzle_diameter x 1.2) x infill_speed
SimTheoreticalRate(a) ==
    NMul(NMul(a.layerHeight, NMul(a.nozzleDiameter, Q(12, 10))), a.settings.speed_infill_mm_s)

\* C7: for every material (with a maximum flow rate, with none, or with one of
\* zero), nozzle diameter, layer height and infill speed, the speedScalingFactor
\* that calculateQuoteLocally returns is strictly greater than 0 and at most 1.
C7_FactorInUnitInterval ==
    SimReturned => NLess(Zero, SimFactor) /\ NLeq(SimFactor, One)

\* A call has returned a factor strictly below 1: the material's ceiling was
\* exceeded and the speeds were derated.
C7_Witness == SimReturned /\ NLess(SimFactor, One)

\* C8 (as claimed): the factor is max_flow_rate / theoretical_rate exactly when
\* the material specifies a maximum flow rate and the theoretical rate exceeds
\* it, and 1 in every other case.
C8_FactorFormula ==
    SimReturned =>
        LET mf == simArgs.material.max_flow_rate_mm3_s
            theo == SimTheoreticalRate(simArgs)
        IN  SimFactor = IF mf # Null /\ NLess(mf[1], theo) THEN NDiv(mf[1], theo) ELSE One

\* Two calls whose arguments differ in the infill speed only.
SimSpeedPair ==
    /\ simPrev # Null
    /\ ~simPrev[1].out.threw
    /\ SimReturned
    /\ simArgs = [simPrev[1].args EXCEPT
                    !.settings.speed_infill_mm_s = simArgs.settings.speed_infill_mm_s]
SimPrevFactor == simPrev[1].out.value[1].speedScalingFactor
SimPrevSpeed == simPrev[1].args.settings.speed_infill_mm_s
SimSpeed == simArgs.settings.speed_infill_mm_s

\* C9: monotonic speed derating.  For a fixed material, nozzle diameter and
\* layer height, a higher infill speed never gives a higher speed scaling
\* factor, and a lower infill speed never gives a lower one.
C9_MonotonicDerating ==
    SimSpeedPair =>
        /\ NLeq(SimPrevSpeed, SimSpeed) => NLeq(SimFactor, SimPrevFactor)
        /\ NLeq(SimSpeed, SimPrevSpeed) => NLeq(SimPrevFactor, SimFactor)

\* The infill speed was raised and the factor went strictly down.
C9_Witness ==
    SimSpeedPair /\ NLess(SimPrevSpeed, SimSpeed) /\ NLess(SimFactor, SimPrevFactor)

\* C10 (as claimed): with the geometry present, a material whose maximum flow
\* rate is present and zero makes the simulation fail with an error, and a
\* material without a maximum flow rate is simulated with the factor 1.
C10_ZeroFlowIsAnError ==
    (simOut # Null /\ SimGeometryPresent) =>
        /\ simArgs.material.max_flow_rate_mm3_s = Some(Zero) => simOut[1].threw
        /\ simArgs.material.max_flow_rate_mm3_s = Null => SimReturned /\ SimFactor = One

----------------------------------------------------------------------------
(* Properties of the print simulator, checked under SimSpec.  The operators  *)
(* Sim... state the estimate as the specification words it, from the         *)
(* arguments a of a call and the speed scaling factor f it returned.         *)

SimTime == simOut[1].value[1].time_hours
SimGrams == simOut[1].value[1].material_grams
SimX(a) == a.validationResult.dimensions_mm[1].x
SimY(a) == a.validationResult.dimensions_mm[1].y
SimZ(a) == a.validationResult.dimensions_mm[1].z
SimFraction(percent) == NDiv(percent, I(100))

SimLineWidth(a) == NMul(a.nozzleDiameter, Q(12, 10))
SimLayerCount(a) == NDiv(SimZ(a), a.layerHeight)
SimLayerArea(a) == NDiv(NMul(a.validationResult.volume_cm3[1], I(1000)), SimZ(a))
SimWallPath(a) == NMul(NMul(I(2), NAdd(SimX(a), SimY(a))), a.wallCount)
SimWallArea(a) == NMul(SimWallPath(a), SimLineWidth(a))
SimInfillArea(a) ==
    IF NLess(SimWallArea(a), SimLayerArea(a)) THEN NSub(SimLayerArea(a), SimWallArea(a))
    ELSE Zero
SimInfillPath(a) ==
    NDiv(NMul(SimInfillArea(a), SimFraction(a.infillPercent)), SimLineWidth(a))
SimSolidLayerCount(a) ==
    NMul(NCeil(NDiv(NMul(a.nozzleDiameter, a.wallCount), a.layerHeight)), I(2))
SimSolidPath(a) == NDiv(SimLayerArea(a), SimLineWidth(a))

SimWallTime(a, f) ==
    NDiv(NMul(SimWallPath(a), SimLayerCount(a)), NMul(a.settings.speed_wall_mm_s, f))
SimInfillTime(a, f) ==
    NDiv(NMul(SimInfillPath(a), SimLayerCount(a)), NMul(a.settings.speed_infill_mm_s, f))
SimTopBottomTime(a, f) ==
    NDiv(NMul(SimSolidPath(a), SimSolidLayerCount(a)),
         NMul(a.settings.speed_top_bottom_mm_s, f))
SimTravelTime(a) ==
    NDiv(NMul(NMul(SimLayerCount(a), Q(1, 2)), NAdd(SimX(a), SimY(a))),
         a.settings.speed_travel_mm_s)
SimPrintTime(a, f) ==
    NAdd(NAdd(SimWallTime(a, f), SimInfillTime(a, f)), SimTopBottomTime(a, f))
SimSupportTime(a, f) == NMul(SimPrintTime(a, f), SimFraction(a.supportPercent))
SimSpeedModifier(a) == NSub(One, SimFraction(a.material.speed_modifier_percent))
\* Seconds to hours, with the overhead factor and the material's modifier.
SimHours(a, seconds) ==
    NDiv(NMul(NMul(seconds, a.settings.acceleration_overhead_factor), SimSpeedModifier(a)),
         I(3600))

\* C11: time_hours = (wall + infill + top/bottom + travel + support) x
\* acceleration_overhead_factor x (1 - speed_modifier_percent/100) / 3600,
\* where the wall, infill and top/bottom times use the configured speeds
\* multiplied by the speed scaling factor, the travel time is
\* layer_count x 0.5 x (x + y) / travel_speed with the unscaled travel speed,
\* and support = (wall + infill + top/bottom) x support_percent/100, so that
\* the travel time is not multiplied by the support percentage.
C11_TimeFormula ==
    SimReturned =>
        SimTime = SimHours(simArgs,
                           NAdd(NAdd(SimPrintTime(simArgs, SimFactor), SimTravelTime(simArgs)),
                                SimSupportTime(simArgs, SimFactor)))

\* A call with a derated speed and a support percentage of 25 has returned a
\* time the model can represent.
C11_Witness ==
    /\ SimReturned
    /\ NLess(SimFactor, One)
    /\ simArgs.supportPercent = I(25)
    /\ IsFinite(SimTime)
    /\ NLess(Zero, SimTravelTime(simArgs))

\* The volume, in cubic millimetres, of a path laid count times.
SimPathVolume(a, path, count) ==
    NMul(NMul(NMul(path, SimLineWidth(a)), a.layerHeight), count)
SimWallVolume(a) == SimPathVolume(a, SimWallPath(a), SimLayerCount(a))
SimInfillVolume(a) == SimPathVolume(a, SimInfillPath(a), SimLayerCount(a))
SimTopBottomVolume(a) == SimPathVolume(a, SimSolidPath(a), SimSolidLayerCount(a))
\* The extruded volume of the model, in cubic centimetres.
SimModelVolume(a) ==
    NDiv(NAdd(NAdd(SimWallVolume(a), SimInfillVolume(a)), SimTopBottomVolume(a)), I(1000))
SimSupportVolume(a) == NMul(SimModelVolume(a), SimFraction(a.supportPercent))

\* C12: material_grams = (wall volume + infill volume + top/bottom volume,
\* converted to cubic centimetres, + support volume) x density, where each of
\* the three volumes is its path length x line width x layer height x the
\* layer count (the solid-layer count for top/bottom) and the support volume
\* is the model volume x support_percent/100.
C12_MaterialFormula ==
    SimReturned =>
        SimGrams = NMul(NAdd(SimModelVolume(simArgs), SimSupportVolume(simArgs)),
                        simArgs.material.density_g_cm3)

\* A call with support 25%, infill and more layers than solid layers has
\* returned a mass the model can represent.
C12_Witness ==
    /\ SimReturned
    /\ simArgs.supportPercent = I(25)
    /\ NLess(Zero, SimInfillVolume(simArgs))
    /\ NLess(SimSolidLayerCount(simArgs), SimLayerCount(simArgs))
    /\ IsFinite(SimGrams)

\* The time and the mass of the walls and the solid layers alone.
SimShellTime(a, f) == NAdd(SimWallTime(a, f), SimTopBottomTime(a, f))
SimShellVolume(a) == NDiv(NAdd(SimWallVolume(a), SimTopBottomVolume(a)), I(1000))

\* C13: zero-infill degeneracy.  For every geometry, material and other
\* process parameters, an infill percentage of 0 contributes exactly 0 to the
\* time and 0 to the mass: the result is the contribution of the walls and
\* the top/bottom layers (with the travel time, and the support on those)
\* alone.
C13_ZeroInfill ==
    (SimReturned /\ simArgs.infillPercent = Zero) =>
        /\ SimTime =
             SimHours(simArgs,
                      NAdd(NAdd(SimShellTime(simArgs, SimFactor), SimTravelTime(simArgs)),
                           NMul(SimShellTime(simArgs, SimFactor),
                                SimFraction(simArgs.supportPercent))))
        /\ SimGrams =
             NMul(NAdd(SimShellVolume(simArgs),
                       NMul(SimShellVolume(simArgs), SimFraction(simArgs.supportPercent))),
                  simArgs.material.density_g_cm3)

\* A call with no infill has returned, for a model whose layers are larger
\* than their walls: only the percentage makes the infill vanish.
C13_Witness ==
    /\ SimReturned
    /\ simArgs.infillPercent = Zero
    /\ NLess(SimWallArea(simArgs), SimLayerArea(simArgs))
    /\ IsFinite(SimTime)
    /\ IsFinite(SimGrams)

SimPrevArgs == simPrev[1].args
SimPrevTime == simPrev[1].out.value[1].time_hours
SimPrevGrams == simPrev[1].out.value[1].material_grams
\* Two calls that returned results the model can represent and compare, the
\* first with a support percentage of 0, the second with 25 and otherwise the
\* same arguments.
SimSupportPair ==
    /\ simPrev # Null
    /\ ~simPrev[1].out.threw
    /\ SimReturned
    /\ SimPrevArgs.supportPercent = Zero
    /\ simArgs = [SimPrevArgs EXCEPT !.supportPercent = I(25)]
    /\ Representable(SimPrevTime) /\ Representable(SimPrevGrams)
    /\ Representable(SimTime) /\ Representable(SimGrams)
    /\ Comparable(SimPrevTime, SimTime) /\ Comparable(SimPrevGrams, SimGrams)

\* C14: support injection.  For identical geometry, material and process
\* parameters, raising support_percent from 0 to 25 strictly increases both
\* time_hours and material_grams, and a support_percent of 0 contributes
\* exactly nothing to either.
C14_SupportInjection ==
    /\ SimSupportPair =>
         NLess(SimPrevTime, SimTime) /\ NLess(SimPrevGrams, SimGrams)
    /\ (SimReturned /\ simArgs.supportPercent = Zero) =>
         /\ SimTime = SimHours(simArgs, NAdd(SimPrintTime(simArgs, SimFactor),
                                             SimTravelTime(simArgs)))
         /\ SimGrams = NMul(SimModelVolume(simArgs), simArgs.material.density_g_cm3)

\* The support percentage was raised from 0 to 25 between two calls.
C14_Witness == SimSupportPair /\ IsFinite(SimTime) /\ IsFinite(SimPrevTime)

\* The round-trip scenario: a cube of 100 x 100 x 100 mm and 1000 cm3, a
\* density of 1.24 g/cm3 (PLA), a 0.4 mm nozzle, 0.2 mm layers, 20% infill,
\* 2 walls, no support, and the default process settings.
SimCubeScenario ==
    /\ simArgs.validationResult.volume_cm3 = Some(I(1000))
    /\ simArgs.validationResult.dimensions_mm = Some(Dims(I(100), I(100), I(100)))
    /\ simArgs.material = DEFAULT_SETTINGS.materials[1]
    /\ simArgs.material.density_g_cm3 = Q(124, 100)
    /\ simArgs.nozzleDiameter = Q(4, 10)
    /\ simArgs.layerHeight = Q(2, 10)
    /\ simArgs.infillPercent = I(20)
    /\ simArgs.wallCount = I(2)
    /\ simArgs.supportPercent = Zero
    /\ simArgs.settings = DEFAULT_SETTINGS

\* C15: for the cube of the round-trip scenario the simulator returns a
\* material_grams strictly between 0 and 1240, the mass of the solid cube, and
\* a finite, strictly positive time_hours.
C15_CubeScenario ==
    (SimCubeScenario /\ simOut # Null) =>
        /\ SimReturned
        /\ NLess(Zero, SimGrams) /\ NLess(SimGrams, I(1240))
        /\ IsFinite(SimTime) /\ NLess(Zero, SimTime)

\* The simulator has been called with the scenario's arguments.
C15_Witness == SimCubeScenario /\ SimReturned

----------------------------------------------------------------------------
(* components/ThreeDViewer.tsx: the mesh geometry analyser.                  *)
(* A vertex is a triple of integers (millimetres); a geometry is a           *)
(* BufferGeometry: its position attribute, a sequence of vertices, and an    *)
(* optional index buffer of 0-based vertex numbers.                          *)

Dot(p, q) == p[1] * q[1] + p[2] * q[2] + p[3] * q[3]
Cross(p, q) ==
    <<p[2] * q[3] - p[3] * q[2], p[3] * q[1] - p[1] * q[3], p[1] * q[2] - p[2] * q[1]>>

Geometry(position, index) == [position |-> position, index |-> index]

\* Mutant: the magnitude of each tetrahedron is summed, not its signed volume.
signedVolumeOfTriangle_Unsigned(p1, p2, p3) == Q(Abs(Dot(p1, Cross(p2, p3))), 6)

signedVolumeOfTriangle(p1, p2, p3) == Q(Dot(p1, Cross(p2, p3)), 6)

\* Vector3.fromBufferAttribute(position, i): a read past the end of the
\* attribute gives undefined coordinates.
fromBufferAttribute(position, i) ==
    IF i + 1 \in DOMAIN position THEN Some(position[i + 1]) ELSE Null

\* The signed volume of the facet whose three vertex numbers are i1, i2, i3.
FacetVolume(position, i1, i2, i3) ==
    LET p1 == fromBufferAttribute(position, i1)
        p2 == fromBufferAttribute(position, i2)
        p3 == fromBufferAttribute(position, i3)
    IN  IF p1 = Null \/ p2 = Null \/ p3 = Null THEN NaN
        ELSE signedVolumeOfTriangle(p1[1], p2[1], p3[1])

\* index.getX(i): undefined past the end of the index buffer.
getX(index, i) == IF i + 1 \in DOMAIN index THEN index[i + 1] ELSE -1

\* The two loops of calculateVolume, from facet i on, with the volume so far.
RECURSIVE VolumeLoop(_, _, _)
VolumeLoop(geometry, i, volume) ==
    IF geometry.index # Null
    THEN IF i < Len(geometry.index[1])
         THEN VolumeLoop(geometry, i + 3,
                         NAdd(volume, FacetVolume(geometry.position,
                                                  getX(geometry.index[1], i),
                                                  getX(geometry.index[1], i + 1),
                                                  getX(geometry.index[1], i + 2))))
         ELSE volume
    ELSE IF i < Len(geometry.position)
         THEN VolumeLoop(geometry, i + 3,
                         NAdd(volume, FacetVolume(geometry.position, i, i + 1, i + 2)))
         ELSE volume

\* Mutant: the volume is rounded down to whole cubic millimetres.
calculateVolume_Rounded(geometry) ==
    LET v == NAbs(VolumeLoop(geometry, 0, Zero))
    IN  IF IsFinite(v) THEN I(v[1] \div v[3]) ELSE v

\* Mutant: the loop runs one facet too far and reads past the end.
calculateVolume_OffByOne(geometry) ==
    NAbs(NAdd(VolumeLoop(geometry, 0, Zero),
              FacetVolume(geometry.position, Len(geometry.position),
                          Len(geometry.position) + 1, Len(geometry.position) + 2)))

calculateVolume(geometry) == NAbs(VolumeLoop(geometry, 0, Zero))

\* geometries.forEach(geom => totalVolumeMm3 += calculateVolume(geom))
RECURSIVE TotalVolume(_, _)
TotalVolume(geometries, k) ==
    IF k > Len(geometries) THEN Zero
    ELSE NAdd(calculateVolume(geometries[k]), TotalVolume(geometries, k + 1))

\* THREE.Box3: empty, or the least and the greatest corner of a set of points
\* (triples of numbers).
Box3SetFromPoints(points) ==
    IF points = {} THEN [empty |-> TRUE, min |-> <<Zero, Zero, Zero>>, max |-> <<Zero, Zero, Zero>>]
    ELSE LET Least(k) == CHOOSE m \in {q[k] : q \in points} :
                             \A q \in points : NLeq(m, q[k])
             Greatest(k) == CHOOSE m \in {q[k] : q \in points} :
                             \A q \in points : NLeq(q[k], m)
         IN  [empty |-> FALSE,
              min |-> <<Least(1), Least(2), Least(3)>>,
              max |-> <<Greatest(1), Greatest(2), Greatest(3)>>]

\* Box3.getSize: (0, 0, 0) for an empty box.
getSize(box) ==
    IF box.empty THEN Dims(Zero, Zero, Zero)
    ELSE Dims(NSub(box.max[1], box.min[1]), NSub(box.max[2], box.min[2]),
              NSub(box.max[3], box.min[3]))

\* The points of a model: every vertex of the position attribute of every mesh.
ModelPoints(model) ==
    UNION { { <<I(v[1]), I(v[2]), I(v[3])>> : v \in Range(model[k].position) } :
            k \in DOMAIN model }

\* The geometry effect of Model: what onGeometryCalculated is called with.
GeometryEffect(model) ==
    [volume_cm3 |-> NDiv(TotalVolume(model, 1), I(1000)),
     dimensions_mm |-> getSize(Box3SetFromPoints(ModelPoints(model)))]

----------------------------------------------------------------------------
(* GeomSpec: a model is loaded, the geometry effect analyses it, and the     *)
(* model is translated or scaled and analysed again.                         *)

MaxCoord == 2     \* the largest vertex coordinate of a loaded model
MaxShift == 1     \* the longest translation step
MaxScale == 3     \* the largest scale factor

Origin == <<0, 0, 0>>

\* A tetrahedron as the loaders build it: a triangle soup of four facets,
\* wound outwards when b, c, d are counter-clockwise seen from outside.
TetraSoup(a, b, c, d) == <<a, c, b, a, b, d, a, d, c, b, c, d>>

\* The same solid with every facet wound the other way.
FlippedSoup(a, b, c, d) == <<a, b, c, a, d, b, a, c, d, b, d, c>>

\* The eight corners of a w x h x d box and the index buffer of its twelve
\* outward facets.
BoxCorners(w, h, d) ==
    <<<<0, 0, 0>>, <<w, 0, 0>>, <<w, h, 0>>, <<0, h, 0>>,
      <<0, 0, d>>, <<w, 0, d>>, <<w, h, d>>, <<0, h, d>>>>
BoxIndex ==
    <<0, 2, 1, 0, 3, 2, 4, 5, 6, 4, 6, 7, 0, 1, 5, 0, 5, 4,
      1, 2, 6, 1, 6, 5, 2, 3, 7, 2, 7, 6, 3, 0, 4, 3, 4, 7>>

\* The first n facets of the box, as an indexed geometry over all its corners.
BoxFacets(w, h, d, from, to) ==
    Geometry(BoxCorners(w, h, d), Some(SubSeq(BoxIndex, 3 * from + 1, 3 * to)))

Sizes == 1..MaxCoord
Skews == 0..MaxCoord

\* The solids a file can hold as one mesh.
ClosedGeometries ==
    { Geometry(TetraSoup(Origin, <<p, 0, 0>>, <<x, q, 0>>, <<y, z, r>>), Null) :
        p \in Sizes, q \in Sizes, r \in Sizes, x \in Skews, y \in Skews, z \in Skews }
    \cup { Geometry(FlippedSoup(Origin, <<p, 0, 0>>, <<0, q, 0>>, <<y, z, r>>), Null) :
        p \in Sizes, q \in Sizes, r \in Sizes, y \in Skews, z \in Skews }
    \cup { BoxFacets(w, h, d, 0, 12) : w \in Sizes, h \in Sizes, d \in Sizes }

\* Surfaces that are not closed: one triangle, a tetrahedron without its last
\* facet, a box without its top.
OpenGeometries ==
    { Geometry(<<Origin, <<p, 0, 0>>, <<0, q, 0>>>>, Null) : p \in Sizes, q \in Sizes }
    \cup { Geometry(SubSeq(TetraSoup(Origin, <<p, 0, 0>>, <<0, q, 0>>, <<0, 0, r>>), 1, 9), Null) :
        p \in Sizes, q \in Sizes, r \in Sizes }
    \cup { BoxFacets(w, w, d, 0, 10) : w \in Sizes, d \in Sizes }

\* A mesh without facets.
EmptyGeometry == Geometry(<<>>, Null)

\* The loaded models: one mesh, no mesh at all, an empty mesh (alone or beside
\* a solid), two solids, and one box whose facets are split over two meshes.
GeomModels ==
    { <<g>> : g \in ClosedGeometries \cup OpenGeometries }
    \cup { <<>>, <<EmptyGeometry>>, <<EmptyGeometry, EmptyGeometry>> }
    \cup { <<Geometry(TetraSoup(Origin, <<p, 0, 0>>, <<0, p, 0>>, <<0, 0, p>>), Null),
             Geometry(FlippedSoup(Origin, <<q, 0, 0>>, <<0, q, 0>>, <<0, 0, q>>), Null)>> :
            p \in Sizes, q \in Sizes }
    \cup { <<Geometry(TetraSoup(Origin, <<p, 0, 0>>, <<0, p, 0>>, <<0, 0, p>>), Null),
             BoxFacets(q, q, q, 0, 12)>> : p \in Sizes, q \in Sizes }
    \cup { <<BoxFacets(w, w, d, 0, 6), BoxFacets(w, w, d, 6, 12)>> : w \in Sizes, d \in Sizes }

\* Every vertex of the model moved by t, or multiplied by k.
MapVertices(model, F(_)) ==
    [k \in DOMAIN model |->
        Geometry([n \in DOMAIN model[k].position |-> F(model[k].position[n])],
                 model[k].index)]
Translated(model, t) ==
    LET Move(v) == <<v[1] + t[1], v[2] + t[2], v[3] + t[3]>> IN MapVertices(model, Move)
Scaled(model, k) ==
    LET Grow(v) == <<k * v[1], k * v[2], k * v[3]>> IN MapVertices(model, Grow)

Shifts ==
    { <<s, 0, 0>> : s \in (-MaxShift)..MaxShift } \cup { <<0, s, 0>> : s \in (-MaxShift)..MaxShift }
    \cup { <<0, 0, s>> : s \in (-MaxShift)..MaxShift }
    \cup { <<s, -s, 2 * s>> : s \in (-MaxShift)..MaxShift }

GeomInit ==
    /\ OptionsIdle
    /\ gModel \in GeomModels
    /\ gData = Null
    /\ gBase = Null
    /\ gShift = Origin
    /\ gScale = 1
    /\ SimIdle
    /\ WizIdle
    /\ PriceIdle
    /\ AdminIdle
    /\ SceneIdle

\* The geometry effect runs for the model now loaded.
GeomAnalyse ==
    /\ gData = Null
    /\ gData' = Some(GeometryEffect(gModel))
    /\ gBase' = IF gBase = Null THEN Some(GeometryEffect(gModel)) ELSE gBase
    /\ UNCHANGED <<gModel, gShift, gScale>>

\* The analysed model is replaced by a translated copy of it.
GeomTranslate ==
    /\ gBase # Null /\ gData # Null
    /\ gShift = Origin /\ gScale = 1
    /\ \E t \in Shifts \ {Origin} :
        /\ gModel' = Translated(gModel, t)
        /\ gShift' = t
    /\ gData' = Null
    /\ UNCHANGED <<gBase, gScale>>

\* The analysed model is replaced by a scaled copy of it.
GeomScale ==
    /\ gBase # Null /\ gData # Null
    /\ gShift = Origin /\ gScale = 1
    /\ \E k \in (0..MaxScale) \ {1} :
        /\ gModel' = Scaled(gModel, k)
        /\ gScale' = k
    /\ gData' = Null
    /\ UNCHANGED <<gBase, gShift>>

GeomNext ==
    \/ GeomAnalyse /\ UNCHANGED <<simVars, wizVars, priceVars, adminVars, sceneVars, optionVars>>
    \/ GeomTranslate /\ UNCHANGED <<simVars, wizVars, priceVars, adminVars, sceneVars, optionVars>>
    \/ GeomScale /\ UNCHANGED <<simVars, wizVars, priceVars, adminVars, sceneVars, optionVars>>

GeomSpec == GeomInit /\ [][GeomNext]_vars

----------------------------------------------------------------------------
(* Properties of the mesh geometry analyser, checked under GeomSpec *)

GeomReported == gData[1]
GeomFirstReported == gBase[1]

\* The facets of a geometry, as triples of points.
NumFacets(geometry) ==
    (IF geometry.index # Null THEN Len(geometry.index[1]) ELSE Len(geometry.position)) \div 3
FacetPoint(geometry, f, j) ==
    IF geometry.index # Null
    THEN geometry.position[geometry.index[1][3 * (f - 1) + j] + 1]
    ELSE geometry.position[3 * (f - 1) + j]
FacetEdges(geometry) ==
    [e \in (1..NumFacets(geometry)) \X (1..3) |->
        <<FacetPoint(geometry, e[1], e[2]), FacetPoint(geometry, e[1], (e[2] % 3) + 1)>>]

\* Closed and consistently wound: every directed edge is matched by as many
\* edges running the other way.
IsClosed(geometry) ==
    LET edges == FacetEdges(geometry)
        Count(u, v) == Cardinality({e \in DOMAIN edges : edges[e] = <<u, v>>})
    IN  \A e \in DOMAIN edges :
            Count(edges[e][1], edges[e][2]) = Count(edges[e][2], edges[e][1])

AllClosed(model) == \A k \in DOMAIN model : IsClosed(model[k])

\* The signed tetrahedron volumes of every facet of every mesh, summed.
RECURSIVE SignedSum(_, _)
SignedSum(model, k) ==
    IF k > Len(model) THEN Zero
    ELSE NAdd(VolumeLoop(model[k], 0, Zero), SignedSum(model, k + 1))

\* C3: the reported volume_cm3 is the absolute value of the sum, over every
\* facet of every mesh of the model, of p1.(p2 x p3)/6, divided by 1000.
C3_VolumeOfAllFacets ==
    gData # Null =>
        GeomReported.volume_cm3 = NDiv(NAbs(SignedSum(gModel, 1)), I(1000))

\* C4: the volume computed for a translated copy of a model of closed,
\* consistently wound meshes equals the volume computed for the model.
C4_TranslationInvariance ==
    (gData # Null /\ gShift # Origin /\ AllClosed(gModel)) =>
        GeomReported.volume_cm3 = GeomFirstReported.volume_cm3

C4_Witness ==
    /\ gData # Null /\ gShift # Origin /\ AllClosed(gModel)
    /\ gModel # <<>>
    /\ GeomReported.volume_cm3 # Zero

\* C5: the volume computed for a model scaled by k is k^3 times the volume
\* computed for the model.
C5_ScaleLaw ==
    (gData # Null /\ gScale # 1) =>
        GeomReported.volume_cm3 =
            NMul(I(gScale * gScale * gScale), GeomFirstReported.volume_cm3)

C5_Witness ==
    /\ gData # Null /\ gScale > 1 /\ AllClosed(gModel)
    /\ gModel # <<>>
    /\ GeomFirstReported.volume_cm3 # Zero
    /\ GeomReported.volume_cm3 = NMul(I(gScale * gScale * gScale), GeomFirstReported.volume_cm3)

\* C6: a model whose meshes have no facets is reported with volume_cm3 = 0
\* and dimensions_mm = (0, 0, 0), both finite.
ZeroFacets(model) == \A k \in DOMAIN model : NumFacets(model[k]) = 0

C6_ZeroFacets ==
    (gData # Null /\ ZeroFacets(gModel)) =>
        /\ GeomReported.volume_cm3 = Zero
        /\ GeomReported.dimensions_mm = Dims(Zero, Zero, Zero)

C6_Witness ==
    /\ gData # Null
    /\ gModel = <<EmptyGeometry>>
    /\ GeomReported.volume_cm3 = Zero

----------------------------------------------------------------------------
(* The wizard: the App component, the ThreeDViewer it mounts and the calls   *)
(* to the advisory classifier that are in flight.                            *)

MaxUploads == 1   \* how many files are selected in one run
MaxTurn == 1      \* how many 45 degree steps the rotation is away from (0, 0, 0)

\* Math.cos and Math.sin of k steps of 45 degrees, exactly.
CosTurn(k) ==
    LET m == k % 8
    IN  IF m = 0 THEN One
        ELSE IF m = 1 \/ m = 7 THEN <<0, 1, 2>>
        ELSE IF m = 2 \/ m = 6 THEN Zero
        ELSE IF m = 3 \/ m = 5 THEN <<0, -1, 2>>
        ELSE I(-1)
SinTurn(k) == CosTurn(k - 2)

\* Object3D.rotation is an Euler triple of order XYZ: a point is turned about
\* z, then about y, then about x.
RotZ(k, v) ==
    <<NSub(NMul(CosTurn(k), v[1]), NMul(SinTurn(k), v[2])),
      NAdd(NMul(SinTurn(k), v[1]), NMul(CosTurn(k), v[2])),
      v[3]>>
RotY(k, v) ==
    <<NAdd(NMul(CosTurn(k), v[1]), NMul(SinTurn(k), v[3])),
      v[2],
      NSub(NMul(CosTurn(k), v[3]), NMul(SinTurn(k), v[1]))>>
RotX(k, v) ==
    <<v[1],
      NSub(NMul(CosTurn(k), v[2]), NMul(SinTurn(k), v[3])),
      NAdd(NMul(SinTurn(k), v[2]), NMul(CosTurn(k), v[3]))>>
applyEuler(euler, v) == RotX(euler[1], RotY(euler[2], RotZ(euler[3], v)))

\* new THREE.Box3().setFromObject(groupRef.current).getSize(): the size of the
\* box around the model under the rotation of its group.  The files of the
\* wizard hold cuboids, for which the box around the turned vertices and the
\* box around the turned corners of the local bounding box are the same.
GroupSize(model, euler) ==
    getSize(Box3SetFromPoints({ applyEuler(euler, q) : q \in ModelPoints(model) }))

\* The triangle soup of a w x h x d box, as STLLoader builds it.
BoxSoup(w, h, d) ==
    Geometry([n \in DOMAIN BoxIndex |-> BoxCorners(w, h, d)[BoxIndex[n] + 1]], Null)

File(name, model) == [name |-> name, model |-> model]

\* The files the user selects: a 30 x 20 x 10 box, a mesh without facets and a
\* STEP file, which the viewer does not show.
WizFiles ==
    { File("box.stl", <<BoxSoup(30, 20, 10)>>),
      File("empty.stl", <<EmptyGeometry>>),
      File("part.step", <<>>) }

\* What analyzeModelWithAI resolves to: the printability flags.
AnalysisAnswers ==
    { [is_printable |-> TRUE, is_repairable |-> FALSE],
      [is_printable |-> FALSE, is_repairable |-> TRUE],
      [is_printable |-> FALSE, is_repairable |-> FALSE] }

\* What estimateSupportWithAI resolves to: a percentage.
SupportAnswers == {I(25)}

\* What findOptimalOrientationWithAI resolves to: degrees about x, y and z.
OrientationAnswers == { <<0, 0, 0>>, <<90, 0, 0>>, <<0, 45, 0>> }

\* An asynchronous handler waiting for the advisor: which handler, which call
\* it awaits, and the file, the geometry and the result its closure holds.
Call(handler, awaits, f, data, result) ==
    [handler |-> handler, awaits |-> awaits, file |-> f, modelData |-> data,
     result |-> result]

isUnsupportedPreview ==
    file # Null /\ file[1].name \in {"part.stp", "part.step"}
isModelVisible == file # Null
isAnalysisPending == step = "ANALYZE" /\ status \in {"ANALYZING", "ESTIMATING_SUPPORT"}
ViewerMounted == (isModelVisible \/ isAnalysisPending) /\ ~isUnsupportedPreview

Init ==
    /\ OptionsIdle
    /\ WizIdle
    /\ SimIdle
    /\ GeomIdle
    /\ PriceIdle
    /\ AdminIdle
    /\ SceneIdle

\* The state handleReset leaves, with the file f (Null when there is none); the
\* viewer unmounts or starts afresh for the new modelUrl.
ResetTo(f) ==
    /\ step' = "UPLOAD"
    /\ status' = "IDLE"
    /\ file' = f
    /\ validationResult' = Null
    /\ originalValidationResult' = Null
    /\ rawQuote' = Null
    /\ selectedMaterialId' = DEFAULT_SETTINGS.materials[1].id
    /\ rotation' = <<0, 0, 0>>
    /\ apiError' = Null
    /\ analysisStarted' = FALSE
    /\ aiSupportPercent' = Null
    /\ modelData' = Null
    /\ analysisTriggered' = FALSE
    /\ dimsTimer' = FALSE

handleReset ==
    /\ file # Null
    /\ ResetTo(Null)
    /\ UNCHANGED <<calls, uploads>>

handleFileSelect ==
    /\ step = "UPLOAD" /\ file = Null
    /\ uploads < MaxUploads
    /\ \E f \in WizFiles : ResetTo(Some(f))
    /\ uploads' = uploads + 1
    /\ UNCHANGED calls

\* The analysis trigger effect of the viewer, run with the given enabled flag
\* and geometry: it calls onModelLoad once, and handleModelLoad clears the
\* error and awaits analyzeModelWithAI.
TriggerEffect(enabled, data) ==
    IF enabled /\ data # Null /\ ~analysisTriggered
    THEN /\ analysisTriggered' = TRUE
         /\ apiError' = Null
         /\ calls' = calls \cup {Call("handleModelLoad", "analysis", file[1], data[1], Null)}
    ELSE UNCHANGED <<analysisTriggered, apiError, calls>>

\* The rotation effect of the viewer: it (re)starts the 50 ms timer once a
\* model has been loaded.
RotationEffect(data) ==
    dimsTimer' = IF ViewerMounted /\ data # Null THEN TRUE ELSE dimsTimer

\* The model file has been loaded: the geometry effect of Model reports the
\* geometry, and the effects that depend on modelData run.
handleGeometryCalculated ==
    /\ ViewerMounted /\ file # Null /\ modelData = Null
    /\ LET data == Some(GeometryEffect(file[1].model))
       IN  /\ modelData' = data
           /\ TriggerEffect(analysisStarted, data)
           /\ RotationEffect(data)
    /\ UNCHANGED <<step, status, file, validationResult, originalValidationResult, rotation,
                   analysisStarted, aiSupportPercent, rawQuote, selectedMaterialId, uploads>>

TurnsAway(euler) == Abs(euler[1]) + Abs(euler[2]) + Abs(euler[3])

\* OrientationControl: one of the six +-45 degree buttons.
rotate ==
    /\ step = "UPLOAD" /\ file # Null
    /\ \E axis \in 1..3, angle \in {-1, 1} :
        /\ TurnsAway([rotation EXCEPT ![axis] = @ + angle]) <= MaxTurn
        /\ rotation' = [rotation EXCEPT ![axis] = @ + angle]
    /\ RotationEffect(modelData)
    /\ UNCHANGED <<step, status, file, validationResult, originalValidationResult, apiError,
                   analysisStarted, aiSupportPercent, rawQuote, selectedMaterialId,
                   modelData, analysisTriggered, calls, uploads>>

resetRotation ==
    /\ step = "UPLOAD" /\ file # Null
    /\ rotation' = <<0, 0, 0>>
    /\ RotationEffect(modelData)
    /\ UNCHANGED <<step, status, file, validationResult, originalValidationResult, apiError,
                   analysisStarted, aiSupportPercent, rawQuote, selectedMaterialId,
                   modelData, analysisTriggered, calls, uploads>>

handleFindOptimalOrientation ==
    /\ step = "UPLOAD" /\ file # Null /\ status # "ORIENTING"
    /\ status' = "ORIENTING"
    /\ calls' = calls \cup
          {Call("handleFindOptimalOrientation", "orientation", file[1], Null, Null)}
    /\ UNCHANGED <<step, file, validationResult, originalValidationResult, rotation, apiError,
                   analysisStarted, aiSupportPercent, rawQuote, selectedMaterialId,
                   viewerVars, uploads>>

\* findOptimalOrientationWithAI resolves: degrees become radians, here steps of
\* 45 degrees.
OrientationReturns ==
    \E c \in calls :
        /\ c.awaits = "orientation"
        /\ \E result \in OrientationAnswers :
              rotation' = <<result[1] \div 45, result[2] \div 45, result[3] \div 45>>
        /\ status' = "IDLE"
        /\ RotationEffect(modelData)
        /\ calls' = calls \ {c}
        /\ UNCHANGED <<step, file, validationResult, originalValidationResult, apiError,
                       analysisStarted, aiSupportPercent, rawQuote, selectedMaterialId,
                       modelData, analysisTriggered, uploads>>

\* findOptimalOrientationWithAI rejects.
OrientationThrows ==
    \E c \in calls :
        /\ c.awaits = "orientation"
        /\ status' = "IDLE"
        /\ calls' = calls \ {c}
        /\ UNCHANGED <<step, file, validationResult, originalValidationResult, rotation,
                       apiError, analysisStarted, aiSupportPercent, rawQuote,
                       selectedMaterialId, viewerVars, uploads>>

handleProceedToAnalysis ==
    /\ step = "UPLOAD" /\ file # Null
    /\ step' = "ANALYZE"
    /\ status' = "ANALYZING"
    /\ analysisStarted' = TRUE
    /\ TriggerEffect(ViewerMounted, modelData)
    /\ UNCHANGED <<file, validationResult, originalValidationResult, rotation,
                   aiSupportPercent, rawQuote, selectedMaterialId, modelData, dimsTimer,
                   uploads>>

\* analyzeModelWithAI resolves in handleModelLoad: the result takes the flags
\* of the advisor and the geometry the handler was called with.
AnalysisReturns ==
    \E c \in calls, aiResult \in AnalysisAnswers :
        /\ c.awaits = "analysis"
        /\ LET finalResult ==
                   ValidationResult(aiResult.is_printable, aiResult.is_repairable,
                                    Some(c.modelData.volume_cm3),
                                    Some(c.modelData.dimensions_mm))
           IN  /\ validationResult' = Some(finalResult)
               /\ originalValidationResult' = Some(finalResult)
               /\ IF finalResult.is_printable
                  THEN /\ status' = "ESTIMATING_SUPPORT"
                       /\ calls' = (calls \ {c}) \cup
                              {Call("handleModelLoad", "support", c.file, c.modelData,
                                    Some(finalResult))}
                  ELSE /\ status' = IF finalResult.is_repairable THEN "REPAIR_PROMPT"
                                    ELSE "ERROR"
                       /\ calls' = calls \ {c}
        /\ UNCHANGED <<step, file, rotation, apiError, analysisStarted, aiSupportPercent,
                       rawQuote, selectedMaterialId, viewerVars, uploads>>

\* estimateSupportWithAI resolves, in handleModelLoad or in handleAttemptRepair.
SupportReturns ==
    \E c \in calls, supportPercent \in SupportAnswers :
        /\ c.awaits = "support"
        /\ aiSupportPercent' = Some(supportPercent)
        /\ status' = "SUCCESS"
        /\ calls' = calls \ {c}
        /\ UNCHANGED <<step, file, validationResult, originalValidationResult, rotation,
                       apiError, analysisStarted, rawQuote, selectedMaterialId, viewerVars,
                       uploads>>

\* A call to the advisor rejects in handleModelLoad or in handleAttemptRepair:
\* the catch block of the handler.
AdvisorThrows ==
    \E c \in calls :
        /\ c.awaits \in {"analysis", "support"}
        /\ apiError' = Some(IF c.handler = "handleModelLoad"
                            THEN "Error analyzing model with AI"
                            ELSE "error_repairing_model")
        /\ status' = "ERROR"
        /\ calls' = calls \ {c}
        /\ UNCHANGED <<step, file, validationResult, originalValidationResult, rotation,
                       analysisStarted, aiSupportPercent, rawQuote, selectedMaterialId,
                       viewerVars, uploads>>

\* repairModelWithAI resolves at once; the handler then awaits the support
\* estimate.
handleAttemptRepair ==
    /\ step = "ANALYZE" /\ status = "REPAIR_PROMPT"
    /\ validationResult # Null
    /\ LET repairedResult ==
               [validationResult[1] EXCEPT !.is_printable = TRUE, !.is_repairable = FALSE]
       IN  /\ validationResult' = Some(repairedResult)
           /\ originalValidationResult' = Some(repairedResult)
           /\ calls' = calls \cup
                 {Call("handleAttemptRepair", "support", file[1], Null, Some(repairedResult))}
    /\ apiError' = Null
    /\ status' = "ESTIMATING_SUPPORT"
    /\ UNCHANGED <<step, file, rotation, analysisStarted, aiSupportPercent, rawQuote,
                   selectedMaterialId, viewerVars, uploads>>

handleProceedToOptions ==
    /\ step = "ANALYZE" /\ status = "SUCCESS"
    /\ step' = "OPTIONS"
    /\ UNCHANGED <<status, file, validationResult, originalValidationResult, rotation,
                   apiError, analysisStarted, aiSupportPercent, rawQuote,
                   selectedMaterialId, viewerVars, calls, uploads>>

handleGoBack ==
    /\ \/ step = "ANALYZE" /\ status \in {"SUCCESS", "REPAIR_PROMPT"}
       \/ step \in {"OPTIONS", "QUOTE"}
    /\ apiError' = Null
    /\ step' = IF step = "ANALYZE" THEN "UPLOAD"
               ELSE IF step = "OPTIONS" THEN "ANALYZE" ELSE "OPTIONS"
    /\ status' = IF step = "ANALYZE" THEN "IDLE" ELSE "SUCCESS"
    /\ analysisStarted' = IF step = "ANALYZE" THEN FALSE ELSE analysisStarted
    /\ validationResult' =
          IF step = "ANALYZE" THEN originalValidationResult ELSE validationResult
    /\ rawQuote' = IF step = "QUOTE" THEN Null ELSE rawQuote
    /\ UNCHANGED <<file, originalValidationResult, rotation, aiSupportPercent,
                   selectedMaterialId, viewerVars, calls, uploads>>

\* PrintOptions: another material is chosen.
onMaterialChange ==
    /\ step \in {"OPTIONS", "QUOTE"} /\ status # "QUOTING"
    /\ \E m \in Range(DEFAULT_SETTINGS.materials) :
          m.id # selectedMaterialId /\ selectedMaterialId' = m.id
    /\ UNCHANGED <<step, status, file, validationResult, originalValidationResult, rotation,
                   apiError, analysisStarted, aiSupportPercent, rawQuote, viewerVars,
                   calls, uploads>>

\* The guard of calculateAndSetQuote: the geometry is missing.
GeometryMissing(result) ==
    result = Null \/ ~Truthy(result[1].volume_cm3) \/ result[1].dimensions_mm = Null

\* handleRequestQuote and the effect it starts: calculateAndSetQuote.
handleRequestQuote ==
    /\ step = "OPTIONS"
    /\ step' = "QUOTE"
    /\ IF GeometryMissing(validationResult)
       THEN UNCHANGED <<status, apiError, rawQuote>>
       ELSE LET material == CHOOSE m \in Range(DEFAULT_SETTINGS.materials) :
                                m.id = selectedMaterialId
                nozzle == CHOOSE n \in Range(DEFAULT_SETTINGS.nozzles) :
                                n.id = selectedNozzleId
                supportToUse == IF aiSupportPercent # Null THEN aiSupportPercent[1]
                                ELSE DEFAULT_SETTINGS.support_overhead_percent
                raw == calculateQuoteLocally(validationResult[1], material, nozzle.value,
                                             selectedLayerHeight, selectedInfill,
                                             selectedWallCount, DEFAULT_SETTINGS,
                                             supportToUse)
            IN  IF raw.threw
                THEN /\ apiError' = Some("error_calculating_quote")
                     /\ status' = "ERROR"
                     /\ rawQuote' = Null
                ELSE /\ apiError' = Null
                     /\ status' = "SUCCESS"
                     /\ rawQuote' = raw.value
    /\ UNCHANGED <<file, validationResult, originalValidationResult, rotation,
                   analysisStarted, aiSupportPercent, selectedMaterialId, viewerVars,
                   calls, uploads>>

\* The 50 ms timer of the rotation effect fires: the size of the box around
\* the turned model goes to handleDimensionsUpdate.
handleDimensionsUpdate ==
    /\ dimsTimer /\ file # Null
    /\ dimsTimer' = FALSE
    /\ validationResult' =
          IF validationResult # Null
          THEN Some([validationResult[1] EXCEPT
                        !.dimensions_mm = Some(GroupSize(file[1].model, rotation))])
          ELSE Null
    /\ UNCHANGED <<step, status, file, originalValidationResult, rotation, apiError,
                   analysisStarted, aiSupportPercent, rawQuote, selectedMaterialId,
                   modelData, analysisTriggered, calls, uploads>>

Next ==
    \/ handleFileSelect /\ UNCHANGED <<simVars, geomVars, priceVars, adminVars, sceneVars, optionVars>>
    \/ handleReset /\ UNCHANGED <<simVars, geomVars, priceVars, adminVars, sceneVars, optionVars>>
    \/ handleGeometryCalculated /\ UNCHANGED <<simVars, geomVars, priceVars, adminVars, sceneVars, optionVars>>
    \/ rotate /\ UNCHANGED <<simVars, geomVars, priceVars, adminVars, sceneVars, optionVars>>
    \/ resetRotation /\ UNCHANGED <<simVars, geomVars, priceVars, adminVars, sceneVars, optionVars>>
    \/ handleFindOptimalOrientation /\ UNCHANGED <<simVars, geomVars, priceVars, adminVars, sceneVars, optionVars>>
    \/ OrientationReturns /\ UNCHANGED <<simVars, geomVars, priceVars, adminVars, sceneVars, optionVars>>
    \/ OrientationThrows /\ UNCHANGED <<simVars, geomVars, priceVars, adminVars, sceneVars, optionVars>>
    \/ handleProceedToAnalysis /\ UNCHANGED <<simVars, geomVars, priceVars, adminVars, sceneVars, optionVars>>
    \/ AnalysisReturns /\ UNCHANGED <<simVars, geomVars, priceVars, adminVars, sceneVars, optionVars>>
    \/ SupportReturns /\ UNCHANGED <<simVars, geomVars, priceVars, adminVars, sceneVars, optionVars>>
    \/ AdvisorThrows /\ UNCHANGED <<simVars, geomVars, priceVars, adminVars, sceneVars, optionVars>>
    \/ handleAttemptRepair /\ UNCHANGED <<simVars, geomVars, priceVars, adminVars, sceneVars, optionVars>>
    \/ handleProceedToOptions /\ UNCHANGED <<simVars, geomVars, priceVars, adminVars, sceneVars, optionVars>>
    \/ handleGoBack /\ UNCHANGED <<simVars, geomVars, priceVars, adminVars, sceneVars, optionVars>>
    \/ onMaterialChange /\ UNCHANGED <<simVars, geomVars, priceVars, adminVars, sceneVars, optionVars>>
    \/ handleRequestQuote /\ UNCHANGED <<simVars, geomVars, priceVars, adminVars, sceneVars, optionVars>>
    \/ handleDimensionsUpdate /\ UNCHANGED <<simVars, geomVars, priceVars, adminVars, sceneVars, optionVars>>

Spec == Init /\ [][Next]_vars

----------------------------------------------------------------------------
(* Properties of the wizard, checked under Spec *)

\* A quote is requested: the step from OPTIONS to QUOTE.
QuoteRequested == step = "OPTIONS" /\ step' = "QUOTE"

\* C1: every quote request made while volume_cm3 or dimensions_mm is absent
\* ends in an error status with an error message, and leaves no quote.
C1_MissingGeometryIsAnError ==
    [][(QuoteRequested /\ GeometryMissing(validationResult)) =>
           (status' = "ERROR" /\ apiError' # Null /\ rawQuote' = Null)]_vars

\* C2: at every quote request the dimensions_mm the simulator consumes are the
\* size of the bounding box of the mesh under the current rotation.
C2_DimensionsFollowRotation ==
    [][(QuoteRequested /\ file # Null /\ ~GeometryMissing(validationResult)) =>
           validationResult[1].dimensions_mm =
               Some(GroupSize(file[1].model, rotation))]_vars

----------------------------------------------------------------------------
(* The pricing engine: the price part of calculateAndSetQuote, the price     *)
(* memo of the App component and the amounts QuoteDisplay shows.             *)

\* The largest quantity entered.
MaxQuantity == 3

\* Math.floor of a rational number.
NFloor(x) == IF IsFinite(x) THEN I(x[1] \div x[3]) ELSE x
Pow10(digits) == IF digits = 2 THEN 100 ELSE IF digits = 3 THEN 1000 ELSE 1

\* Math.ceil(value / unit) * unit
MathCeilTo(value, unit) == NMul(NCeil(NDiv(value, I(unit))), I(unit))
\* The nearest multiple of 10^-digits, the larger one of two that are equally
\* near.  The program rounds the binary value; the model the exact one.
RoundHalfUp(value, digits) ==
    NDiv(NFloor(NAdd(NMul(value, I(Pow10(digits))), Q(1, 2))), I(Pow10(digits)))
\* parseFloat(value.toFixed(digits))
toFixed(value, digits) == RoundHalfUp(value, digits)
\* The number value.toLocaleString shows with at most the given number of
\* fraction digits: halves are rounded away from zero.
toLocaleString(value, maximumFractionDigits) ==
    IF IsFinite(value) /\ NSign(value) < 0
    THEN NNeg(RoundHalfUp(NNeg(value), maximumFractionDigits))
    ELSE RoundHalfUp(value, maximumFractionDigits)

\* calculateAndSetQuote, lines 587-611: the per-unit costs and price.
QuoteData(raw, material, settings, lang) ==
    LET pricePerKg ==
            IF lang = "fa" THEN material.price_per_kg.toman ELSE material.price_per_kg.usd
        ratePerHour ==
            IF lang = "fa" THEN settings.machineRatePerHour.toman
            ELSE settings.machineRatePerHour.usd
        materialCost == NMul(NDiv(raw.material_grams, I(1000)), pricePerKg)
        machineTimeCost == NMul(raw.time_hours, ratePerHour)
        price == NAdd(materialCost, machineTimeCost)
    IN  [material |-> toFixed(raw.material_grams, 2),
         price |-> IF lang = "fa" THEN MathCeilTo(price, 1000) ELSE toFixed(price, 2),
         material_cost |-> materialCost,
         machine_time_cost |-> machineTimeCost]

\* Lines 613-620 and 789-796: the options recorded with a quote, and the
\* current ones.
QuotedOptions(materialId, nozzleId, layerHeight, infill, wallCount, qty) ==
    [materialId |-> materialId, nozzleId |-> nozzleId, layerHeight |-> layerHeight,
     infill |-> infill, wallCount |-> wallCount, quantity |-> qty]

\* Array.prototype.sort with the comparator a.from_hours - b.from_hours: a
\* stable sort, here by insertion.
InsertTier(sorted, tier) ==
    LET k == Cardinality({i \in DOMAIN sorted :
                              NLeq(sorted[i].from_hours, tier.from_hours)})
    IN  SubSeq(sorted, 1, k) \o <<tier>> \o SubSeq(sorted, k + 1, Len(sorted))
RECURSIVE SortTiers(_)
SortTiers(tiers) ==
    IF tiers = <<>> THEN <<>>
    ELSE InsertTier(SortTiers(SubSeq(tiers, 1, Len(tiers) - 1)), tiers[Len(tiers)])

\* x < y for a finite x or NaN and a y that may be Infinity, or null, which
\* the comparison converts to 0.
LessThan(x, y) ==
    IF y = Null THEN NLess(x, Zero) ELSE IF y = Infinity THEN IsFinite(x) ELSE NLess(x, y)

\* Mutant: the lower bound of a tier is excluded.
TierContains_OpenBelow(tier, totalHours) ==
    NLess(tier.from_hours, totalHours) /\ LessThan(totalHours, tier.to_hours)

\* Mutant: the upper bound of a tier is included.
TierContains_ClosedAbove(tier, totalHours) ==
    /\ NLeq(tier.from_hours, totalHours)
    /\ (LessThan(totalHours, tier.to_hours) \/ totalHours = tier.to_hours)

\* Line 754: totalHours >= tier.from_hours && totalHours < tier.to_hours
TierContains(tier, totalHours) ==
    NLeq(tier.from_hours, totalHours) /\ LessThan(totalHours, tier.to_hours)

\* Array.prototype.find: the first tier that contains totalHours, or undefined.
FindTier(tiers, totalHours) ==
    LET found == {i \in DOMAIN tiers : TierContains(tiers[i], totalHours)}
    IN  IF found = {} THEN Null
        ELSE Some(tiers[CHOOSE i \in found : \A j \in found : i <= j])

\* Mutant: the tiers are searched in the order of the array, unsorted.
applicableTierOf_Unsorted(tiers, totalHours) == FindTier(tiers, totalHours)

\* Lines 752-754: the tiers sorted by from_hours, then searched.
applicableTierOf(tiers, totalHours) == FindTier(SortTiers(tiers), totalHours)

\* The price memo, lines 747-783, last stage first.

\* Lines 765-781: the final price and the value of the memo.
PriceMemoValue(lang, totalHours, applicableTier, discountPercent, totalMaterialCost, totalMachineCost, calculatedDiscount) ==
    LET finalMachineCost == NSub(totalMachineCost, calculatedDiscount)
        finalCalculatedPrice == NAdd(totalMaterialCost, finalMachineCost)
    IN  [totalHours |-> Some(totalHours),
         applicableTier |-> applicableTier,
         discountPercent |-> discountPercent,
         finalPrice |-> IF lang = "fa" THEN MathCeilTo(finalCalculatedPrice, 1000)
                        ELSE toFixed(finalCalculatedPrice, 2),
         discountAmount |-> calculatedDiscount,
         totalMaterialCost |-> totalMaterialCost,
         totalMachineCost |-> totalMachineCost]

\* Mutant: the discount is taken on the material cost as well.
PriceMemoCosts_DiscountOnTotal(lang, qty, quote, totalHours, applicableTier, discountPercent, totalMachineCost) ==
    PriceMemoValue(lang, totalHours, applicableTier, discountPercent,
                   NMul(quote.material_cost, I(qty)), totalMachineCost,
                   NMul(NAdd(NMul(quote.material_cost, I(qty)), totalMachineCost),
                        NDiv(discountPercent, I(100))))

\* Lines 759-764: the total material cost and the discount.
PriceMemoCosts(lang, qty, quote, totalHours, applicableTier, discountPercent, totalMachineCost) ==
    PriceMemoValue(lang, totalHours, applicableTier, discountPercent,
                   NMul(quote.material_cost, I(qty)), totalMachineCost,
                   NMul(totalMachineCost, NDiv(discountPercent, I(100))))

\* Lines 756-761: the discount percent and the total machine cost.
PriceMemoDiscount(lang, qty, quote, totalHours, applicableTier) ==
    PriceMemoCosts(lang, qty, quote, totalHours, applicableTier,
                   IF applicableTier # Null THEN applicableTier[1].discount_percent
                   ELSE Zero,
                   NMul(quote.machine_time_cost, I(qty)))

\* Lines 752-754: the tier lookup.
PriceMemoTier(lang, qty, quote, tiers, totalHours) ==
    PriceMemoDiscount(lang, qty, quote, totalHours, applicableTierOf(tiers, totalHours))

\* Line 748: without a simulation result, a quantity or a quote the memo is 0.
PriceMemoRuns(raw, qty, quote) == raw # Null /\ qty # 0 /\ quote # Null

PriceMemo(raw, qty, quote, tiers, lang) ==
    IF ~PriceMemoRuns(raw, qty, quote)
    THEN [totalHours |-> Null, applicableTier |-> Null, discountPercent |-> Zero,
          finalPrice |-> Zero, discountAmount |-> Zero, totalMaterialCost |-> Zero,
          totalMachineCost |-> Zero]
    ELSE PriceMemoTier(lang, qty, quote[1], tiers, NMul(raw[1].time_hours, I(qty)))

\* settings.pricingTiers after the memo: sort works on the array itself.
PriceMemoTiers(raw, qty, quote, tiers) ==
    IF PriceMemoRuns(raw, qty, quote) THEN SortTiers(tiers) ELSE tiers

\* QuoteDisplay.tsx, lines 22-27.
formatCurrency(value, lang) ==
    IF lang = "fa" THEN MathCeilTo(value, 100) ELSE toLocaleString(value, 2)

\* Mutant: the quote is stale when the material or the quantity differs.
quoteIsStale_MaterialAndQuantity(quoted, currentOptions) ==
    /\ quoted # Null
    /\ \/ quoted[1].materialId # currentOptions.materialId
       \/ quoted[1].quantity # currentOptions.quantity

\* Lines 785-798, in step QUOTE: the options differ from the quoted ones.
\* JSON.stringify writes the six fields in the same order for both objects,
\* so the texts differ exactly when a field does.
quoteIsStale(quoted, currentOptions) ==
    quoted # Null /\ quoted[1] # currentOptions

\* The options of the pricing engine: the selections are those of the start.
PriceCurrentOptions ==
    QuotedOptions(pMaterial.id, selectedNozzleId, selectedLayerHeight, selectedInfill,
                  selectedWallCount, quantity)

\* The amounts QuoteDisplay renders, as numbers: Null when no quote is shown,
\* and Null for an amount that is left out (the price per item for a single
\* unit, a discount of 0).
QuoteDisplay(quote, qty, discountAmount, finalPrice, totalMaterialCost, totalMachineCost, lang) ==
    IF quote = Null THEN Null
    ELSE Some([material_cost |-> formatCurrency(quote[1].material_cost, lang),
               machine_time_cost |-> formatCurrency(quote[1].machine_time_cost, lang),
               totalMaterialCost |-> formatCurrency(totalMaterialCost, lang),
               totalMachineCost |-> formatCurrency(totalMachineCost, lang),
               price |-> IF qty > 1 THEN Some(formatCurrency(quote[1].price, lang))
                         ELSE Null,
               discountAmount |-> IF NLess(Zero, discountAmount)
                                  THEN Some(formatCurrency(discountAmount, lang))
                                  ELSE Null,
               finalPrice |-> toLocaleString(finalPrice, 3)])

\* What the App renders in step QUOTE, lines 932-941.
Displayed ==
    QuoteDisplay(IF quoteIsStale(quotedOptions, PriceCurrentOptions) THEN Null
                 ELSE quoteData,
                 quantity, prices.discountAmount, prices.finalPrice,
                 prices.totalMaterialCost, prices.totalMachineCost, language)

----------------------------------------------------------------------------
(* PriceSpec: a simulation result is priced, the quantity and the language   *)
(* are changed and the quote is updated.                                     *)

\* Simulation results: half an hour and 12.1 g, up to 1250 hours and 5 kg;
\* and two slow prints of 100 g, 300 and 312.5 hours, of which eight and nine
\* units lie around the 2500 hours where the last default tier begins.
PriceRawQuotes ==
    { [time_hours |-> Q(1, 2), material_grams |-> Q(121, 10), speedScalingFactor |-> One],
      [time_hours |-> I(300), material_grams |-> I(100), speedScalingFactor |-> One],
      [time_hours |-> Q(625, 2), material_grams |-> I(100), speedScalingFactor |-> One],
      [time_hours |-> I(250), material_grams |-> Q(30593, 100),
       speedScalingFactor |-> One],
      [time_hours |-> I(500), material_grams |-> I(1000), speedScalingFactor |-> One],
      [time_hours |-> I(600), material_grams |-> I(1240),
       speedScalingFactor |-> Q(125, 144)],
      [time_hours |-> I(1250), material_grams |-> I(5000), speedScalingFactor |-> One] }

\* The table of the discount scenario: it leaves 1500 hours and more uncovered.
ScenarioTiers ==
    << PricingTier("tier1", I(0), I(500), 0), PricingTier("tier2", I(500), I(1500), 10) >>

\* The default table, the scenario's, a table whose tiers overlap and are not
\* in order, one with two tiers from 0 hours, and a table that covers every
\* hour once with a discount that goes down.
PriceTierTables ==
    { DEFAULT_SETTINGS.pricingTiers,
      ScenarioTiers,
      << PricingTier("b", I(500), I(1500), 10), PricingTier("a", I(0), I(1000), 5) >>,
      << PricingTier("a", I(0), I(1000), 5), PricingTier("b", I(0), I(500), 20) >>,
      << PricingTier("a", I(0), I(500), 10), PricingTier("b", I(500), Infinity, 0) >> }

PriceInit ==
    /\ OptionsIdle
    /\ SimIdle
    /\ GeomIdle
    /\ WizIdle
    /\ AdminIdle
    /\ SceneIdle
    /\ pMaterial \in Range(DEFAULT_SETTINGS.materials)
    /\ pRawQuote = Null
    /\ quoteData = Null
    /\ quotedOptions = Null
    /\ quantity = 1
    /\ language \in {"fa", "en"}
    /\ pricingTiers \in PriceTierTables
    /\ prices = PriceMemo(Null, 1, Null, pricingTiers, language)

\* The render after a change of state: the memo is computed again.
PriceRender(raw, qty, quote, lang) ==
    /\ prices' = PriceMemo(raw, qty, quote, pricingTiers, lang)
    /\ pricingTiers' = PriceMemoTiers(raw, qty, quote, pricingTiers)

\* calculateAndSetQuote from line 585 on: the first quote, or the update of a
\* stale one.  The options other than the quantity are not changed, so that an
\* update simulates the same result again.
PriceCalculateAndSetQuote ==
    /\ pRawQuote = Null \/ quoteIsStale(quotedOptions, PriceCurrentOptions)
    /\ \E raw \in (IF pRawQuote = Null THEN PriceRawQuotes ELSE {pRawQuote[1]}) :
          /\ pRawQuote' = Some(raw)
          /\ quoteData' = Some(QuoteData(raw, pMaterial, DEFAULT_SETTINGS, language))
          /\ quotedOptions' = Some(PriceCurrentOptions)
          /\ PriceRender(pRawQuote', quantity, quoteData', language)
    /\ UNCHANGED <<pMaterial, quantity, language, optionVars>>

\* The quantities entered: the small ones, and eight and nine units.
PriceQuantities == (1..MaxQuantity) \cup {8, 9}

\* Line 1031: setQuantity(Math.max(1, parseInt(e.target.value, 10) || 1))
setQuantity ==
    /\ pRawQuote # Null
    /\ \E q \in PriceQuantities :
          /\ q # quantity
          /\ quantity' = q
          /\ PriceRender(pRawQuote, q, quoteData, language)
    /\ UNCHANGED <<pMaterial, pRawQuote, quoteData, quotedOptions, language, optionVars>>

handleLanguageToggle ==
    /\ language' = IF language = "fa" THEN "en" ELSE "fa"
    /\ PriceRender(pRawQuote, quantity, quoteData, language')
    /\ UNCHANGED <<pMaterial, pRawQuote, quoteData, quotedOptions, quantity, optionVars>>

PriceNext ==
    \/ PriceCalculateAndSetQuote /\ UNCHANGED <<simVars, geomVars, wizVars, adminVars, sceneVars, optionVars>>
    \/ setQuantity /\ UNCHANGED <<simVars, geomVars, wizVars, adminVars, sceneVars, optionVars>>
    \/ handleLanguageToggle /\ UNCHANGED <<simVars, geomVars, wizVars, adminVars, sceneVars, optionVars>>

PriceSpec == PriceInit /\ [][PriceNext]_vars

----------------------------------------------------------------------------
(* Properties of the pricing engine, checked under PriceSpec *)

\* The memo has computed a price.
PriceRan == prices.totalHours # Null
PriceTotalHours == prices.totalHours[1]
PriceTiers == Range(pricingTiers)
\* total_hours lies in [from_hours, to_hours) of the tier.
InTier(tier, hours) ==
    /\ NLeq(tier.from_hours, hours)
    /\ (tier.to_hours = Infinity \/ NLess(hours, tier.to_hours))
TiersOf(hours) == {tier \in PriceTiers : InTier(tier, hours)}

\* C16: the tier lookup uses total_hours = time_hours x quantity and selects
\* the first tier, in ascending from_hours order, with
\* from_hours <= total_hours < to_hours; the discount percent is that tier's,
\* and it is 0 when no tier contains total_hours.
C16_TierLookup ==
    PriceRan =>
        /\ PriceTotalHours = NMul(pRawQuote[1].time_hours, I(quantity))
        /\ IF TiersOf(PriceTotalHours) = {}
           THEN prices.applicableTier = Null /\ prices.discountPercent = Zero
           ELSE /\ prices.applicableTier # Null
                /\ prices.applicableTier[1] \in TiersOf(PriceTotalHours)
                /\ \A tier \in TiersOf(PriceTotalHours) :
                      NLeq(prices.applicableTier[1].from_hours, tier.from_hours)
                /\ prices.discountPercent = prices.applicableTier[1].discount_percent

\* A price was computed for more than one unit from a table where two tiers
\* that start at different hours both contain the total hours.
C16_Witness ==
    /\ PriceRan
    /\ quantity > 1
    /\ \E t1, t2 \in TiersOf(PriceTotalHours) : NLess(t1.from_hours, t2.from_hours)

\* The rounding of a currency as the specification words it: up to the next
\* multiple of 1000 in Toman, to two decimals in USD.
PriceRounded(lang, amount) ==
    IF lang = "fa" THEN NMul(NCeil(NDiv(amount, I(1000))), I(1000))
    ELSE NDiv(NFloor(NAdd(NMul(amount, I(100)), Q(1, 2))), I(100))

PriceUnitMachineCost == quoteData[1].machine_time_cost
PriceUnitMaterialCost == quoteData[1].material_cost
\* The material and the machine cost of all units, less the discount; it is
\* finite where the model can represent it.
PriceNetCost ==
    NSub(NAdd(NMul(PriceUnitMaterialCost, I(quantity)),
              NMul(PriceUnitMachineCost, I(quantity))),
         prices.discountAmount)
PriceDiscountScenario ==
    /\ PriceRan
    /\ PriceTiers = Range(ScenarioTiers)
    /\ pRawQuote[1].time_hours = I(600)
    /\ quantity = 1

\* C17: the discount amount is (per-unit machine cost x quantity) x
\* discount_percent/100 and is taken from the machine-time portion only: the
\* total material cost is the per-unit material cost x quantity whatever the
\* tier, and the final price before rounding is material cost x quantity +
\* machine cost x quantity - discount amount.  With the tiers
\* [{0,500,0%},{500,1500,10%}], 600 hours and one unit the discount is 10% of
\* the machine cost alone.
C17_DiscountOnMachineTime ==
    PriceRan =>
        /\ prices.discountAmount =
             NMul(NMul(PriceUnitMachineCost, I(quantity)),
                  NDiv(prices.discountPercent, I(100)))
        /\ prices.totalMaterialCost = NMul(PriceUnitMaterialCost, I(quantity))
        /\ IsFinite(PriceNetCost) => prices.finalPrice = PriceRounded(language, PriceNetCost)
        /\ PriceDiscountScenario =>
             /\ prices.discountPercent = I(10)
             /\ prices.discountAmount = NDiv(PriceUnitMachineCost, I(10))

\* The scenario has been priced, with a discount and a material cost.
C17_Witness ==
    /\ PriceDiscountScenario
    /\ NLess(Zero, prices.discountAmount)
    /\ NLess(Zero, prices.totalMaterialCost)
    /\ IsFinite(prices.finalPrice)

\* A well-formed table: the tiers are in order, start at 0 hours, each ends
\* where the next begins, and the last is unbounded.
WellFormedTiers(tiers) ==
    /\ tiers # <<>>
    /\ tiers[1].from_hours = Zero
    /\ tiers[Len(tiers)].to_hours = Infinity
    /\ \A i \in DOMAIN tiers :
          /\ IsFinite(tiers[i].from_hours)
          /\ tiers[i].to_hours = Infinity \/ NLess(tiers[i].from_hours, tiers[i].to_hours)
          /\ i < Len(tiers) => tiers[i].to_hours = tiers[i + 1].from_hours
\* The discount does not go down from a tier to the next.
DiscountsAscending(tiers) ==
    \A i \in DOMAIN tiers :
        i < Len(tiers) => NLeq(tiers[i].discount_percent, tiers[i + 1].discount_percent)

\* Two prices in a row, the second for at least as many total hours.
PriceHoursRise ==
    PriceRan /\ PriceRan' /\ NLeq(PriceTotalHours, PriceTotalHours')

\* C18 (as claimed): tier monotonicity.  For a well-formed non-overlapping
\* tier table the discount percent selected by the tier lookup is
\* non-decreasing as the total machine-hours increase.
C18_TierMonotonicity ==
    [][(PriceHoursRise /\ WellFormedTiers(pricingTiers)) =>
           NLeq(prices.discountPercent, prices'.discountPercent)]_vars

\* C18 (amended): for a well-formed tier table whose discount percents do not
\* go down from a tier to the next, such as the default table, the discount
\* percent selected by the tier lookup is non-decreasing as the total
\* machine-hours increase.
C18_TierMonotonicityAscending ==
    [][(PriceHoursRise /\ WellFormedTiers(pricingTiers)
            /\ DiscountsAscending(pricingTiers)) =>
           NLeq(prices.discountPercent, prices'.discountPercent)]_vars

\* More than one unit has been priced with the default table, and the total
\* hours have reached a tier with a discount.
C18_Witness ==
    /\ PriceRan
    /\ pricingTiers = DEFAULT_SETTINGS.pricingTiers
    /\ WellFormedTiers(pricingTiers) /\ DiscountsAscending(pricingTiers)
    /\ quantity > 1
    /\ NLess(Zero, prices.discountPercent)

\* The tiers of the table that the lookup's test accepts for the total hours.
PriceMatches ==
    {i \in DOMAIN pricingTiers : TierContains(pricingTiers[i], PriceTotalHours)}

\* C19: for a well-formed tier table, and in particular for the default table
\* whose last tier is unbounded, exactly one tier matches every non-negative
\* total-hours value: no value matches no tier and none matches two.
C19_ExactlyOneTier ==
    (PriceRan /\ WellFormedTiers(pricingTiers)) =>
        /\ Cardinality(PriceMatches) = 1
        /\ prices.applicableTier # Null
        /\ \A i \in PriceMatches : prices.applicableTier[1] = pricingTiers[i]

\* The default table was searched for 2500 hours, where its unbounded tier
\* begins.
C19_Witness ==
    /\ PriceRan
    /\ pricingTiers = DEFAULT_SETTINGS.pricingTiers
    /\ PriceTotalHours = I(2500)
    /\ prices.applicableTier # Null
    /\ prices.applicableTier[1].to_hours = Infinity

\* An amount that is shown is the rounding of the amount it reports.
ShownRounded(shown, amount) == shown # Null => shown[1] = PriceRounded(language, amount)

\* C20 (as claimed): rounding is applied consistently per currency.  In Toman
\* mode every amount a quote reports (the per-unit price, the final price, and
\* the material, machine and discount amounts shown with it) is rounded up to
\* the same unit, the smallest multiple of 1000 not below the unrounded value;
\* in USD mode every amount is rounded to two decimals.
C20_ConsistentRounding ==
    Displayed # Null =>
        /\ ShownRounded(Some(Displayed[1].material_cost), PriceUnitMaterialCost)
        /\ ShownRounded(Some(Displayed[1].machine_time_cost), PriceUnitMachineCost)
        /\ ShownRounded(Some(Displayed[1].totalMaterialCost), prices.totalMaterialCost)
        /\ ShownRounded(Some(Displayed[1].totalMachineCost), prices.totalMachineCost)
        /\ ShownRounded(Displayed[1].discountAmount, prices.discountAmount)
        /\ ShownRounded(Displayed[1].price,
                        NAdd(PriceUnitMaterialCost, PriceUnitMachineCost))
        /\ ShownRounded(Some(Displayed[1].finalPrice),
                        NSub(NAdd(prices.totalMaterialCost, prices.totalMachineCost),
                             prices.discountAmount))

\* C21 (as claimed): computing a price never modifies its inputs.  Over every
\* step of the pricing engine the settings' pricing tiers keep their order
\* and content and the material profile stays what it was.
C21_InputsUnchanged ==
    [][pricingTiers' = pricingTiers /\ pMaterial' = pMaterial]_vars

----------------------------------------------------------------------------
(* The settings store: settings.ts and the App's settings state.  A settings *)
(* object is held in a heap, so that two names for one object or one array   *)
(* can be told from two copies: a cell of the heap is an object (its fields) *)
(* or an array (the addresses of its items), and an address is an index of   *)
(* the heap.  The fields of ArrayFields hold the address of an array of      *)
(* objects; every other field holds its value.                               *)

\* constants.ts, by id.
PREDEFINED_COLORS == <<"white", "black", "transparent", "gray", "red", "blue", "green">>

\* Array.prototype.filter
Filter(seq, Keep(_)) == SelectSeq(seq, Keep)

\* The colors of the default materials, settings.ts lines 9-12.
DefaultColors(id) ==
    IF id = "pla" THEN PREDEFINED_COLORS
    ELSE IF id = "abs"
    THEN Filter(PREDEFINED_COLORS, LAMBDA c : c \in {"black", "white", "gray", "red"})
    ELSE IF id = "petg" THEN Filter(PREDEFINED_COLORS, LAMBDA c : c # "green")
    ELSE Filter(PREDEFINED_COLORS, LAMBDA c : c \in {"black", "white", "red", "blue"})

\* DEFAULT_SETTINGS with the fields the simulator does not read: the password
\* and the colors of the materials.
DefaultSettingsValue ==
    [f \in DOMAIN DEFAULT_SETTINGS \cup {"adminPassword"} |->
        IF f = "adminPassword" THEN "admin"
        ELSE IF f = "materials"
        THEN [i \in DOMAIN DEFAULT_SETTINGS.materials |->
                 DEFAULT_SETTINGS.materials[i]
                     @@ [colors |-> DefaultColors(DEFAULT_SETTINGS.materials[i].id)]]
        ELSE DEFAULT_SETTINGS[f]]

ArrayFields ==
    <<"materials", "nozzles", "layerHeights", "infills", "wallCounts", "pricingTiers">>
FieldIndex(f) == CHOOSE k \in DOMAIN ArrayFields : ArrayFields[k] = f

Object(fields) == [array |-> FALSE, fields |-> fields, items |-> <<>>]
Array(items) == [array |-> TRUE, fields |-> <<>>, items |-> items]

\* The items of the first k arrays of the settings value v, in a row.
RECURSIVE Elements(_, _)
Elements(v, k) == IF k = 0 THEN <<>> ELSE Elements(v, k - 1) \o v[ArrayFields[k]]

\* The heap h with new cells for the settings value v: the settings object at
\* Len(h) + 1, then its arrays, then their items.
Allocate(h, v) ==
    LET base == Len(h)
        n == Len(ArrayFields)
        root == [f \in DOMAIN v |->
                    IF f \in Range(ArrayFields) THEN base + 1 + FieldIndex(f) ELSE v[f]]
        arrays == [k \in 1..n |->
                      Array([e \in 1..Len(v[ArrayFields[k]]) |->
                                base + 1 + n + Len(Elements(v, k - 1)) + e])]
        objects == [i \in 1..Len(Elements(v, n)) |-> Object(Elements(v, n)[i])]
    IN  h \o <<Object(root)>> \o arrays \o objects

\* The items of the array at address a, as values.
ItemsAt(h, a) == [i \in DOMAIN h[a].items |-> h[h[a].items[i]].fields]

\* The settings value held at address a.
ValueAt(h, a) ==
    [f \in DOMAIN h[a].fields |->
        IF f \in Range(ArrayFields) THEN ItemsAt(h, h[a].fields[f]) ELSE h[a].fields[f]]

\* DEFAULT_SETTINGS is the first object of the heap.
DefaultAddress == 1

\* JSON.stringify of a number: a finite number is written as it is (and read
\* back as the same number), NaN and Infinity are written as null.
JSONNumber(x) == IF x = Null THEN Null ELSE IF IsFinite(x) THEN x ELSE Null

JSONPrice(price) == [toman |-> JSONNumber(price.toman), usd |-> JSONNumber(price.usd)]

\* A field that is undefined (Null, for the optional maximum flow rate) is
\* left out, and is undefined again when the text is read.
JSONMaterial(mat) ==
    [mat EXCEPT !.price_per_kg = JSONPrice(@),
                !.density_g_cm3 = JSONNumber(@),
                !.speed_modifier_percent = JSONNumber(@),
                !.max_flow_rate_mm3_s = IF @ = Null THEN Null ELSE Some(JSONNumber(@[1]))]

JSONOption(option) == [option EXCEPT !.value = JSONNumber(@)]

JSONTier(tier) ==
    [tier EXCEPT !.from_hours = JSONNumber(@),
                 !.to_hours = JSONNumber(@),
                 !.discount_percent = JSONNumber(@)]

\* JSON.stringify(settings): the text, as the tree of values JSON.parse reads
\* from it.
JSONstringify(v) ==
    [f \in DOMAIN v |->
        IF f = "materials" THEN [i \in DOMAIN v[f] |-> JSONMaterial(v[f][i])]
        ELSE IF f = "pricingTiers" THEN [i \in DOMAIN v[f] |-> JSONTier(v[f][i])]
        ELSE IF f \in Range(ArrayFields) THEN [i \in DOMAIN v[f] |-> JSONOption(v[f][i])]
        ELSE IF f = "machineRatePerHour" THEN JSONPrice(v[f])
        ELSE IF f = "adminPassword" THEN v[f]
        ELSE JSONNumber(v[f])]

\* saveSettings, settings.ts lines 110-116: the item written to localStorage.
saveSettings(h, a) == Some(JSONstringify(ValueAt(h, a)))

\* loadSettings, lines 88-96: a stored material without a maximum flow rate
\* gets the default material's, or 20.
MigrateMaterial(mat) ==
    IF mat.max_flow_rate_mm3_s # Null THEN mat
    ELSE LET defaults == {d \in Range(DefaultSettingsValue.materials) : d.id = mat.id}
         IN  [mat EXCEPT !.max_flow_rate_mm3_s =
                  IF defaults = {} \/ (CHOOSE d \in defaults : TRUE).max_flow_rate_mm3_s = Null
                  THEN Some(I(20))
                  ELSE (CHOOSE d \in defaults : TRUE).max_flow_rate_mm3_s]

\* loadSettings, lines 52-108: the heap and the address of the settings it
\* returns.  Without a stored item the result is DEFAULT_SETTINGS itself.  A
\* stored item is parsed into new objects and merged over the defaults; the
\* items this program writes have the two-currency prices and the colors, so
\* the migrations of lines 59-75 and 90-92 do not apply to them.
loadSettings(h, stored) ==
    IF stored = Null THEN [heap |-> h, settings |-> DefaultAddress]
    ELSE LET parsed == stored[1]
             merged == [f \in DOMAIN DefaultSettingsValue |->
                           IF f \in DOMAIN parsed THEN parsed[f]
                           ELSE DefaultSettingsValue[f]]
             fullSettings ==
                 [merged EXCEPT
                     !.adminPassword =
                         IF @ = "" THEN DefaultSettingsValue.adminPassword ELSE @,
                     !.materials = [i \in DOMAIN @ |-> MigrateMaterial(@[i])]]
         IN  [heap |-> Allocate(h, fullSettings), settings |-> Len(h) + 1]

----------------------------------------------------------------------------
(* components/AdminPanel.tsx: the panel keeps its own settings state and     *)
(* hands it to the App on Save.                                              *)

MaxEdits == 2     \* how many edits are made in the panel
MaxOpens == 2     \* how many times the panel is opened

\* Mutant: the panel starts from a copy of the settings object only, which
\* shares its arrays with the App's settings.
AdminPanelState_Shallow(h, currentSettings) ==
    [heap |-> h \o <<Object(h[currentSettings].fields)>>, settings |-> Len(h) + 1]

\* Line 15: useState(JSON.parse(JSON.stringify(currentSettings)))
AdminPanelState(h, currentSettings) ==
    [heap |-> Allocate(h, JSONstringify(ValueAt(h, currentSettings))),
     settings |-> Len(h) + 1]

\* { ...settings, [field]: items }: a new array and a new settings object.
WithArray(h, a, field, items) ==
    [heap |-> h \o <<Array(items), Object([h[a].fields EXCEPT ![field] = Len(h) + 1])>>,
     settings |-> Len(h) + 2]

\* The addresses of the items of an array field of the panel's settings.
PanelItems(field) == heap[heap[panelSettings[1]].fields[field]].items

\* An edit ends with setSettings(newSettings).
PanelEdit(newSettings) ==
    /\ panelSettings # Null
    /\ edits < MaxEdits
    /\ heap' = newSettings.heap
    /\ panelSettings' = Some(newSettings.settings)
    /\ edits' = edits + 1
    /\ UNCHANGED <<appSettings, localStorage, opened, savedSettings, opens>>

\* array.filter((_, i) => i !== index)
RemoveAt(seq, index) == SubSeq(seq, 1, index - 1) \o SubSeq(seq, index + 1, Len(seq))

\* The values entered in the panel.
TierEdits == { <<"from_hours", I(1000)>>, <<"to_hours", I(3000)>>,
               <<"to_hours", Infinity>>, <<"discount_percent", I(50)>> }
PriceEdits == {I(2000000)}
ColorEdits == {"white", "green"}
OptionTypes == {"nozzles", "infills"}
OptionEdits == {I(1)}

\* Lines 51-64: the material is copied before it is changed.
handleMaterialChange ==
    /\ panelSettings # Null
    /\ \E index \in DOMAIN PanelItems("materials"), value \in PriceEdits :
          LET items == PanelItems("materials")
              material == [heap[items[index]].fields EXCEPT !.price_per_kg.toman = value]
              h == heap \o <<Object(material)>>
          IN  PanelEdit(WithArray(h, panelSettings[1], "materials",
                                  [items EXCEPT ![index] = Len(h)]))

\* Lines 67-82: the colors of the material object are replaced, in the object
\* the array of the settings before the edit holds too.
handleMaterialColorToggle ==
    /\ panelSettings # Null
    /\ \E materialIndex \in DOMAIN PanelItems("materials"), colorToToggle \in ColorEdits :
          LET items == PanelItems("materials")
              colors == heap[items[materialIndex]].fields.colors
              toggled ==
                  IF colorToToggle \in Range(colors)
                  THEN Filter(colors, LAMBDA c : c # colorToToggle)
                  ELSE Filter(PREDEFINED_COLORS,
                              LAMBDA c : c \in Range(colors) \cup {colorToToggle})
              h == [heap EXCEPT ![items[materialIndex]].fields.colors = toggled]
          IN  PanelEdit(WithArray(h, panelSettings[1], "materials", items))

\* Lines 84-97; the id is new_material_<time>.
addMaterial ==
    /\ panelSettings # Null
    /\ LET newMaterial ==
               [id |-> "new_material", price_per_kg |-> [toman |-> I(1000000), usd |-> I(20)],
                density_g_cm3 |-> Q(12, 10), speed_modifier_percent |-> Zero,
                max_flow_rate_mm3_s |-> Some(I(20)), colors |-> PREDEFINED_COLORS]
           h == heap \o <<Object(newMaterial)>>
       IN  PanelEdit(WithArray(h, panelSettings[1], "materials",
                               Append(PanelItems("materials"), Len(h))))

\* Lines 99-102
removeMaterial ==
    /\ panelSettings # Null
    /\ \E index \in DOMAIN PanelItems("materials") :
          PanelEdit(WithArray(heap, panelSettings[1], "materials",
                              RemoveAt(PanelItems("materials"), index)))

\* Lines 104-108: the option object is changed in place.
handleOptionChange ==
    /\ panelSettings # Null
    /\ \E type \in OptionTypes, value \in OptionEdits :
          \E index \in DOMAIN PanelItems(type) :
              LET h == [heap EXCEPT ![PanelItems(type)[index]].fields.value = value]
              IN  PanelEdit(WithArray(h, panelSettings[1], type, PanelItems(type)))

\* Lines 110-114; the id is new_option_<time>.
addOption ==
    /\ panelSettings # Null
    /\ \E type \in OptionTypes :
          LET h == heap \o <<Object(Option("new_option", Zero))>>
          IN  PanelEdit(WithArray(h, panelSettings[1], type,
                                  Append(PanelItems(type), Len(h))))

\* Lines 116-119
removeOption ==
    /\ panelSettings # Null
    /\ \E type \in OptionTypes :
          \E index \in DOMAIN PanelItems(type) :
              PanelEdit(WithArray(heap, panelSettings[1], type,
                                  RemoveAt(PanelItems(type), index)))

\* Lines 121-125: the tier object is changed in place.
handleTierChange ==
    /\ panelSettings # Null
    /\ \E index \in DOMAIN PanelItems("pricingTiers"), edit \in TierEdits :
          LET items == PanelItems("pricingTiers")
              h == [heap EXCEPT ![items[index]].fields[edit[1]] = edit[2]]
          IN  PanelEdit(WithArray(h, panelSettings[1], "pricingTiers", items))

\* x + 500 for an x that may be Infinity or null (which counts as 0).
Plus500(x) ==
    IF x = Null THEN I(500) ELSE IF x = Infinity THEN Infinity ELSE NAdd(x, I(500))

\* Lines 127-141: the new tier starts where the last one ends, and a last
\* tier without an upper bound is given one, in place.  The id is
\* new_tier_<time>.
addTier ==
    /\ panelSettings # Null
    /\ LET items == PanelItems("pricingTiers")
           lastTier == IF items = <<>> THEN Null ELSE Some(heap[items[Len(items)]].fields)
           newFromHours == IF lastTier # Null THEN lastTier[1].to_hours ELSE Zero
           newTier == [id |-> "new_tier", from_hours |-> newFromHours,
                       to_hours |-> Plus500(newFromHours), discount_percent |-> Zero]
           adjusted ==
               IF lastTier # Null /\ lastTier[1].to_hours = Infinity
               THEN [heap EXCEPT ![items[Len(items)]].fields.to_hours =
                         Plus500(lastTier[1].from_hours)]
               ELSE heap
           h == adjusted \o <<Object(newTier)>>
       IN  PanelEdit(WithArray(h, panelSettings[1], "pricingTiers", Append(items, Len(h))))

\* Lines 143-146
removeTier ==
    /\ panelSettings # Null
    /\ \E index \in DOMAIN PanelItems("pricingTiers") :
          PanelEdit(WithArray(heap, panelSettings[1], "pricingTiers",
                              RemoveAt(PanelItems("pricingTiers"), index)))

\* Lines 25-32, the reset being confirmed: a copy of DEFAULT_SETTINGS with the
\* password of the App's settings.
AdminPanelHandleReset ==
    /\ panelSettings # Null
    /\ LET newSettings ==
               [JSONstringify(ValueAt(heap, DefaultAddress)) EXCEPT
                    !.adminPassword = heap[appSettings].fields.adminPassword]
       IN  PanelEdit([heap |-> Allocate(heap, newSettings), settings |-> Len(heap) + 1])

\* handleLoginSuccess, part_000 lines 402-405: the panel is mounted.
handleLoginSuccess ==
    /\ panelSettings = Null
    /\ opens < MaxOpens
    /\ heap' = AdminPanelState(heap, appSettings).heap
    /\ panelSettings' = Some(AdminPanelState(heap, appSettings).settings)
    /\ opened' = Some([settings |-> ValueAt(heap, appSettings), stored |-> localStorage,
                       edits |-> edits])
    /\ opens' = opens + 1
    /\ UNCHANGED <<appSettings, localStorage, savedSettings, edits>>

\* Cancel, or the cross: the panel is unmounted.
onClose ==
    /\ panelSettings # Null
    /\ panelSettings' = Null
    /\ UNCHANGED <<heap, appSettings, localStorage, opened, savedSettings, edits, opens>>

\* part_000 lines 408-414: the settings are stored, and handleReset, called
\* last, sets the App's settings to what loadSettings returns (line 417-418).
handleSettingsSave(newSettings) ==
    /\ localStorage' = saveSettings(heap, newSettings)
    /\ heap' = loadSettings(heap, localStorage').heap
    /\ appSettings' = loadSettings(heap, localStorage').settings
    /\ panelSettings' = Null

\* AdminPanel.tsx lines 21-23: onSave(settings)
handleSave ==
    /\ panelSettings # Null
    /\ handleSettingsSave(panelSettings[1])
    /\ savedSettings' = Some([settings |-> ValueAt(heap, panelSettings[1]),
                              opened |-> opened[1].settings,
                              edited |-> edits # opened[1].edits])
    /\ opened' = Null
    /\ UNCHANGED <<edits, opens>>

\* What localStorage holds when the App is started: nothing, or settings
\* saved earlier, with two tiers of which the last has no upper bound.
StoredItems ==
    { Null,
      Some(JSONstringify(
          [DefaultSettingsValue EXCEPT
              !.pricingTiers = << PricingTier("a", I(0), I(500), 10),
                                  PricingTier("b", I(500), Infinity, 0) >>])) }

\* The module settings.ts is loaded, then the App is mounted: line 311,
\* useState(loadSettings()).
AdminInit ==
    /\ OptionsIdle
    /\ SimIdle
    /\ GeomIdle
    /\ WizIdle
    /\ PriceIdle
    /\ SceneIdle
    /\ localStorage \in StoredItems
    /\ heap = loadSettings(Allocate(<<>>, DefaultSettingsValue), localStorage).heap
    /\ appSettings = loadSettings(Allocate(<<>>, DefaultSettingsValue), localStorage).settings
    /\ panelSettings = Null
    /\ opened = Null
    /\ savedSettings = Null
    /\ edits = 0
    /\ opens = 0

AdminNext ==
    \/ handleLoginSuccess /\ UNCHANGED <<simVars, geomVars, wizVars, priceVars, sceneVars, optionVars>>
    \/ onClose /\ UNCHANGED <<simVars, geomVars, wizVars, priceVars, sceneVars, optionVars>>
    \/ handleSave /\ UNCHANGED <<simVars, geomVars, wizVars, priceVars, sceneVars, optionVars>>
    \/ AdminPanelHandleReset /\ UNCHANGED <<simVars, geomVars, wizVars, priceVars, sceneVars, optionVars>>
    \/ handleMaterialChange /\ UNCHANGED <<simVars, geomVars, wizVars, priceVars, sceneVars, optionVars>>
    \/ handleMaterialColorToggle /\ UNCHANGED <<simVars, geomVars, wizVars, priceVars, sceneVars, optionVars>>
    \/ addMaterial /\ UNCHANGED <<simVars, geomVars, wizVars, priceVars, sceneVars, optionVars>>
    \/ removeMaterial /\ UNCHANGED <<simVars, geomVars, wizVars, priceVars, sceneVars, optionVars>>
    \/ handleOptionChange /\ UNCHANGED <<simVars, geomVars, wizVars, priceVars, sceneVars, optionVars>>
    \/ addOption /\ UNCHANGED <<simVars, geomVars, wizVars, priceVars, sceneVars, optionVars>>
    \/ removeOption /\ UNCHANGED <<simVars, geomVars, wizVars, priceVars, sceneVars, optionVars>>
    \/ handleTierChange /\ UNCHANGED <<simVars, geomVars, wizVars, priceVars, sceneVars, optionVars>>
    \/ addTier /\ UNCHANGED <<simVars, geomVars, wizVars, priceVars, sceneVars, optionVars>>
    \/ removeTier /\ UNCHANGED <<simVars, geomVars, wizVars, priceVars, sceneVars, optionVars>>

AdminSpec == AdminInit /\ [][AdminNext]_vars

----------------------------------------------------------------------------
(* Properties of the settings store and the admin panel, checked under       *)
(* AdminSpec                                                                 *)

AppSettingsValue == ValueAt(heap, appSettings)

\* The tiers of a settings value that have no upper bound.
Unbounded(v) == {i \in DOMAIN v.pricingTiers : v.pricingTiers[i].to_hours = Infinity}

\* The tier at index i of the App's settings is the one the lookup of the
\* price memo finds for a total of from_hours and of 1000 hours more.
StillUnbounded(v, i) ==
    /\ i \in DOMAIN AppSettingsValue.pricingTiers
    /\ \A more \in {Zero, I(1000)} :
          TierContains(AppSettingsValue.pricingTiers[i],
                       NAdd(v.pricingTiers[i].from_hours, more))

\* C22 (as claimed): saveSettings followed by loadSettings returns settings
\* equal to the ones saved, and so does opening the admin panel and pressing
\* Save without an edit; a pricing tier without an upper bound is still
\* without one afterwards, and the tier lookup matches it for every total
\* from its from_hours on.
C22_SettingsRoundTrip ==
    savedSettings # Null =>
        /\ AppSettingsValue = savedSettings[1].settings
        /\ ~savedSettings[1].edited => AppSettingsValue = savedSettings[1].opened
        /\ \A i \in Unbounded(savedSettings[1].settings) :
               StillUnbounded(savedSettings[1].settings, i)
        /\ ~savedSettings[1].edited =>
               \A i \in Unbounded(savedSettings[1].opened) :
                   StillUnbounded(savedSettings[1].opened, i)

\* C30: edits made in the admin panel change only the panel's settings.  From
\* the moment the panel is opened until Save is pressed, the settings of the
\* App and the stored item are what they were when the panel was opened, also
\* after the panel is closed without saving; and DEFAULT_SETTINGS always
\* has the content it was defined with.
C30_EditsStayInThePanel ==
    /\ ValueAt(heap, DefaultAddress) = DefaultSettingsValue
    /\ opened # Null =>
           /\ AppSettingsValue = opened[1].settings
           /\ localStorage = opened[1].stored

\* Two edits have been made in the open panel, one of them to a tier object
\* in place, and the panel's settings differ from the App's.
C30_Witness ==
    /\ panelSettings # Null
    /\ opened # Null
    /\ edits = opened[1].edits + 2
    /\ \E i \in DOMAIN PanelItems("pricingTiers") :
          heap[PanelItems("pricingTiers")[i]].fields.discount_percent = I(50)
    /\ ValueAt(heap, panelSettings[1]).pricingTiers # AppSettingsValue.pricingTiers

----------------------------------------------------------------------------
(* components/ThreeDViewer.tsx, the scene memo of the Model component: the   *)
(* facets of the loaded model are colored, an overhang in the support color. *)

MaxTilt == 2      \* how many 45 degree steps the scene is turned away from (0, 0, 0)

\* The square of the cosine of the threshold, (90 + 61) degrees:
\* cos(151 deg)^2 = 0.76495963..., between 179/234 and 166/217.  Math.acos is
\* decreasing, so an angle exceeds the threshold when its cosine is negative
\* and the square of its cosine exceeds the threshold's.
ThresholdCosSqLow == Q(179, 234)
ThresholdCosSqHigh == Q(166, 217)

Minus(p, q) == <<p[1] - q[1], p[2] - q[2], p[3] - q[3]>>
Numbers(v) == <<I(v[1]), I(v[2]), I(v[3])>>
lengthSq(v) == NAdd(NAdd(NMul(v[1], v[1]), NMul(v[2], v[2])), NMul(v[3], v[3]))

\* Mutant: the normal of the facet is not turned with the model.
worldNormal_Unrotated(p1, p2, p3, euler) == Numbers(Cross(Minus(p2, p1), Minus(p3, p1)))

\* Lines 140-142: faceNormal, the cross product of two edges turned by the
\* rotation matrix.  The program makes it a unit vector first; the model
\* keeps its length, which the angle does not depend on.
worldNormal(p1, p2, p3, euler) ==
    applyEuler(euler, Numbers(Cross(Minus(p2, p1), Minus(p3, p1))))

\* Mutant: every facet that faces downwards exceeds the threshold.
exceedsThreshold_Downward(faceNormal) ==
    NSign(lengthSq(faceNormal)) # 0 /\ NSign(faceNormal[2]) < 0

\* Lines 144-145: faceNormal.angleTo(upVector) > overhangThresholdRad, with
\* upVector = (0, 1, 0).  angleTo gives 90 degrees for a vector of length 0.
exceedsThreshold(faceNormal) ==
    /\ NSign(lengthSq(faceNormal)) # 0
    /\ NSign(faceNormal[2]) < 0
    /\ NLess(NMul(ThresholdCosSqHigh, lengthSq(faceNormal)),
             NMul(faceNormal[2], faceNormal[2]))

\* Lines 135-150: one color for each three vertices of the position attribute.
FacetColors(position, euler, baseColor) ==
    [n \in 1..(Len(position) \div 3) |->
        IF exceedsThreshold(worldNormal(position[3 * n - 2], position[3 * n - 1],
                                        position[3 * n], euler))
        THEN "red" ELSE baseColor]

\* Lines 113-157: without highlighting every mesh gets the default material;
\* with it, the facets of a mesh with a position attribute are colored.
SceneMemo(model, euler, highlighting, errors) ==
    [k \in DOMAIN model |->
        IF ~highlighting THEN Null
        ELSE Some(FacetColors(model[k].position, euler,
                              IF errors THEN "yellow" ELSE "#00bcd4"))]

----------------------------------------------------------------------------
(* SceneSpec: a model is loaded and analysed; it is turned in step UPLOAD    *)
(* and shown with highlighting in the later steps.                           *)

\* Triangle soups, as STLLoader and OBJLoader build them: a box, tetrahedra
\* with a facet 153.4 degrees and one 150.9 degrees from the up vector when
\* not turned, in both windings, a facet without area, and a model of two
\* meshes.
SceneModels ==
    { <<BoxSoup(2, 1, 1)>>,
      <<Geometry(TetraSoup(Origin, <<1, 0, 0>>, <<0, 1, 2>>, <<0, 2, 0>>), Null)>>,
      <<Geometry(FlippedSoup(Origin, <<1, 0, 0>>, <<0, 1, 2>>, <<0, 2, 0>>), Null)>>,
      <<Geometry(TetraSoup(Origin, <<1, 0, 0>>, <<0, 5, 9>>, <<0, 9, 0>>), Null)>>,
      <<Geometry(FlippedSoup(Origin, <<1, 0, 0>>, <<0, 5, 9>>, <<0, 9, 0>>), Null)>>,
      <<Geometry(<<Origin, Origin, <<1, 0, 0>>>>, Null)>>,
      <<BoxSoup(1, 2, 1),
        Geometry(FlippedSoup(Origin, <<1, 0, 0>>, <<0, 1, 2>>, <<0, 2, 0>>), Null)>> }

SceneInit ==
    /\ OptionsIdle
    /\ SimIdle
    /\ WizIdle
    /\ PriceIdle
    /\ AdminIdle
    /\ gModel \in SceneModels
    /\ gData = Null
    /\ gBase = Null
    /\ gShift = Origin
    /\ gScale = 1
    /\ sceneRotation = <<0, 0, 0>>
    /\ highlightingEnabled = FALSE
    /\ hasErrors = FALSE
    /\ sceneColors = SceneMemo(gModel, sceneRotation, highlightingEnabled, hasErrors)

\* The render after a change of the props: the scene memo is computed again.
SceneRender(euler, highlighting, errors) ==
    sceneColors' = SceneMemo(gModel, euler, highlighting, errors)

\* The geometry effect reports the volume and the dimensions.
SceneAnalyse ==
    /\ gData = Null
    /\ gData' = Some(GeometryEffect(gModel))
    /\ UNCHANGED <<gModel, gBase, gShift, gScale, sceneVars>>

\* OrientationControl, shown in step UPLOAD: one of the +-45 degree buttons.
SceneRotate ==
    /\ ~highlightingEnabled
    /\ \E axis \in 1..3, angle \in {-1, 1} :
          /\ TurnsAway([sceneRotation EXCEPT ![axis] = @ + angle]) <= MaxTilt
          /\ sceneRotation' = [sceneRotation EXCEPT ![axis] = @ + angle]
    /\ SceneRender(sceneRotation', highlightingEnabled, hasErrors)
    /\ UNCHANGED <<geomVars, highlightingEnabled, hasErrors>>

\* The step changes from UPLOAD to ANALYZE, or back: highlightingEnabled is
\* step !== 'UPLOAD' (part_000 line 980).
SceneSetStep ==
    /\ highlightingEnabled' = ~highlightingEnabled
    /\ SceneRender(sceneRotation, highlightingEnabled', hasErrors)
    /\ UNCHANGED <<geomVars, sceneRotation, hasErrors>>

\* An analysis result arrives, with or without errors.
SceneSetValidationResult ==
    /\ highlightingEnabled
    /\ hasErrors' = ~hasErrors
    /\ SceneRender(sceneRotation, highlightingEnabled, hasErrors')
    /\ UNCHANGED <<geomVars, sceneRotation, highlightingEnabled>>

SceneNext ==
    \/ SceneAnalyse /\ UNCHANGED <<simVars, wizVars, priceVars, adminVars, optionVars>>
    \/ SceneRotate /\ UNCHANGED <<simVars, wizVars, priceVars, adminVars, optionVars>>
    \/ SceneSetStep /\ UNCHANGED <<simVars, wizVars, priceVars, adminVars, optionVars>>
    \/ SceneSetValidationResult /\ UNCHANGED <<simVars, wizVars, priceVars, adminVars, optionVars>>

SceneSpec == SceneInit /\ [][SceneNext]_vars

----------------------------------------------------------------------------
(* Properties of the scene memo, checked under SceneSpec *)

NMinus(p, q) == <<NSub(p[1], q[1]), NSub(p[2], q[2]), NSub(p[3], q[3])>>
NCross(p, q) ==
    <<NSub(NMul(p[2], q[3]), NMul(p[3], q[2])),
      NSub(NMul(p[3], q[1]), NMul(p[1], q[3])),
      NSub(NMul(p[1], q[2]), NMul(p[2], q[1]))>>

\* The facets of the scene: a mesh and the number of a facet in it.
SceneFacets ==
    {f \in (DOMAIN gModel) \X (1..12) : f[2] <= Len(gModel[f[1]].position) \div 3}

\* A vertex of a facet where the turned model has it.
TurnedVertex(f, j) ==
    applyEuler(sceneRotation, Numbers(gModel[f[1]].position[3 * (f[2] - 1) + j]))

\* The normal of the facet of the turned model: (p2 - p1) x (p3 - p1).
TurnedNormal(f) ==
    NCross(NMinus(TurnedVertex(f, 2), TurnedVertex(f, 1)),
           NMinus(TurnedVertex(f, 3), TurnedVertex(f, 1)))

\* The square of the cosine of the angle between the normal and the up
\* vector, times the square of the length of the normal.
UpSq(f) == NMul(TurnedNormal(f)[2], TurnedNormal(f)[2])

FacesDown(f) == NSign(TurnedNormal(f)[2]) < 0

\* The angle between the normal and the up vector is more than 151 degrees,
\* and is at most 151 degrees.
Beyond151(f) ==
    FacesDown(f) /\ NLess(NMul(ThresholdCosSqHigh, lengthSq(TurnedNormal(f))), UpSq(f))
Within151(f) ==
    ~FacesDown(f) \/ NLess(UpSq(f), NMul(ThresholdCosSqLow, lengthSq(TurnedNormal(f))))

SceneColor(f) == sceneColors[f[1]][1][f[2]]

\* C23: a facet is classified as an overhang (shown in the support color)
\* exactly when the angle between its normal (p2 - p1) x (p3 - p1), turned by
\* the current rotation, and the world up vector is strictly greater than 151
\* degrees; a facet that does not face downwards, a vertical wall among them,
\* is never an overhang; and the volume and the dimensions reported for the
\* model are those of the loaded geometry, whatever the classification.
C23_OverhangClassification ==
    /\ highlightingEnabled =>
           \A f \in SceneFacets :
               /\ Beyond151(f) \/ Within151(f)
               /\ SceneColor(f) = "red" <=> Beyond151(f)
               /\ NSign(TurnedNormal(f)[2]) = 0 => SceneColor(f) # "red"
    /\ gData # Null => gData[1] = GeometryEffect(gModel)

\* The model is turned and highlighted: one facet is an overhang, one facet
\* faces downwards and is none, and one facet is a vertical wall.
C23_Witness ==
    /\ highlightingEnabled
    /\ gData # Null
    /\ sceneRotation # <<0, 0, 0>>
    /\ \E f \in SceneFacets : SceneColor(f) = "red"
    /\ \E f \in SceneFacets : FacesDown(f) /\ SceneColor(f) # "red"
    /\ \E f \in SceneFacets :
          NSign(TurnedNormal(f)[2]) = 0 /\ NSign(lengthSq(TurnedNormal(f))) # 0

----------------------------------------------------------------------------
(* The simulator when the walls leave no room, checked under SimSpec *)

\* The walls of one layer cover at least the area of the layer.
SimWallsFillLayer(a) ==
    /\ Comparable(SimLayerArea(a), SimWallArea(a))
    /\ NLeq(SimLayerArea(a), SimWallArea(a))

\* C24: the infill area of a layer is max(0, layer area - wall area).  When
\* the walls alone cover the layer, the call still returns a result, the
\* infill adds exactly 0 to the time and to the mass whatever the infill
\* percentage is (the result is that of the walls, the solid layers, the
\* travel and the support on them), and neither the time nor the mass is
\* negative.
C24_InfillAreaClamped ==
    (simOut # Null /\ SimGeometryPresent /\ SimWallsFillLayer(simArgs)) =>
        /\ SimReturned
        /\ SimTime =
             SimHours(simArgs,
                      NAdd(NAdd(SimShellTime(simArgs, SimFactor), SimTravelTime(simArgs)),
                           NMul(SimShellTime(simArgs, SimFactor),
                                SimFraction(simArgs.supportPercent))))
        /\ SimGrams =
             NMul(NAdd(SimShellVolume(simArgs),
                       NMul(SimShellVolume(simArgs), SimFraction(simArgs.supportPercent))),
                  simArgs.material.density_g_cm3)
        /\ IsFinite(SimTime) => NLeq(Zero, SimTime)
        /\ IsFinite(SimGrams) => NLeq(Zero, SimGrams)

\* A call has returned for a model whose walls cover more than the layer,
\* with an infill percentage above 0.
C24_Witness ==
    /\ SimReturned
    /\ SimGeometryPresent
    /\ SimWallsFillLayer(simArgs)
    /\ SimLayerArea(simArgs) # SimWallArea(simArgs)
    /\ NLess(Zero, simArgs.infillPercent)
    /\ IsFinite(SimTime)
    /\ IsFinite(SimGrams)

----------------------------------------------------------------------------
(* The wizard with its scheduling: a model file that is shown gets loaded,   *)
(* and every call to the advisor resolves or rejects.                        *)

\* The model file of the mounted viewer is being loaded: the condition under
\* which handleGeometryCalculated can happen.
LoadPending == ViewerMounted /\ file # Null /\ modelData = Null

\* A call to the advisor completes.
AdvisorCompletes ==
    /\ AnalysisReturns \/ SupportReturns \/ AdvisorThrows \/ OrientationReturns
           \/ OrientationThrows
    /\ UNCHANGED <<simVars, geomVars, priceVars, adminVars, sceneVars, optionVars>>

\* Every call to the advisor completes (weak fairness), and a model file
\* that is being loaded gets loaded: handleGeometryCalculated ends the state
\* LoadPending in which alone it can happen, so that its weak fairness is
\* that the load is not pending forever.
FairSpec ==
    /\ Init
    /\ [][Next]_vars
    /\ WF_vars(AdvisorCompletes)
    /\ []<>~LoadPending

\* C25: whenever the wizard is in step ANALYZE with the status ANALYZING,
\* after the first Proceed as after Back and a second Proceed with the same
\* file, the analysis is triggered and, every call to the advisor completing,
\* the status eventually is SUCCESS, REPAIR_PROMPT or ERROR (or the user has
\* left the step for UPLOAD with Reset).
C25_AnalysisCompletes ==
    (step = "ANALYZE" /\ status = "ANALYZING")
        ~> (step = "UPLOAD" \/ status \in {"SUCCESS", "REPAIR_PROMPT", "ERROR"})

----------------------------------------------------------------------------
(* Calls to the advisor that complete after a reset, checked under Spec *)

\* C26: when the wizard has been reset while a call to the advisor (analysis,
\* support estimate, repair or orientation) was in flight, the completion of
\* that call changes nothing: validationResult and aiSupportPercent stay
\* null, the rotation stays (0, 0, 0) and the status stays IDLE.
C26_LateCompletionIgnored ==
    [][(file = Null /\ calls' # calls) =>
           /\ validationResult' = Null
           /\ aiSupportPercent' = Null
           /\ rotation' = <<0, 0, 0>>
           /\ status' = "IDLE"]_vars

----------------------------------------------------------------------------
(* The final price as the quantity grows, checked under PriceSpec *)

\* One more unit of the same simulation result is priced, at the same rates
\* and with the default tiers; the model can compare the two final prices.
PriceNextUnit ==
    /\ PriceRan /\ PriceRan'
    /\ quantity' = quantity + 1
    /\ pRawQuote' = pRawQuote /\ quoteData' = quoteData /\ language' = language
    /\ pricingTiers = DEFAULT_SETTINGS.pricingTiers
    /\ Comparable(prices.finalPrice, prices'.finalPrice)

\* The default tier that contains the hours.
DefaultTierOf(hours) ==
    {i \in DOMAIN DEFAULT_SETTINGS.pricingTiers :
         InTier(DEFAULT_SETTINGS.pricingTiers[i], hours)}

\* C27 (as claimed): for a fixed simulation result and fixed rates, with the
\* default pricing tiers, the final price for q + 1 units is at least the
\* final price for q units.
C27_PriceRisesWithQuantity ==
    [][PriceNextUnit => NLeq(prices.finalPrice, prices'.finalPrice)]_vars

\* C27 (amended): for a fixed simulation result and fixed rates, with the
\* default pricing tiers, the final price for q + 1 units is at least the
\* final price for q units whenever the total hours of q units and of q + 1
\* units lie in the same tier.
C27_PriceRisesWithinTier ==
    [][(PriceNextUnit
            /\ DefaultTierOf(NMul(pRawQuote[1].time_hours, I(quantity)))
                  = DefaultTierOf(NMul(pRawQuote[1].time_hours, I(quantity + 1))))
           => NLeq(prices.finalPrice, prices'.finalPrice)]_vars

\* Nine units have been priced with the default tiers, in the tier that
\* eight units lie in as well, with a discount.
C27_Witness ==
    /\ PriceRan
    /\ pricingTiers = DEFAULT_SETTINGS.pricingTiers
    /\ quantity = 9
    /\ DefaultTierOf(NMul(pRawQuote[1].time_hours, I(8))) = DefaultTierOf(PriceTotalHours)
    /\ NLess(Zero, prices.discountPercent)
    /\ IsFinite(prices.finalPrice)

----------------------------------------------------------------------------
(* QuoteSpec: the steps OPTIONS and QUOTE of the wizard.  A model has been   *)
(* analysed; options are selected, a quote is requested, options and the     *)
(* quantity are changed and the quote is updated.                            *)

\* How many times an option is changed.
MaxOptionChanges == 2

\* The analysed model: the 30 x 20 x 10 box, printable, 25% support.
QuoteFile == File("box.stl", <<BoxSoup(30, 20, 10)>>)
QuoteModelData == GeometryEffect(QuoteFile.model)

\* The state of the wizard when the step OPTIONS is entered.
QuoteStart ==
    /\ step = "OPTIONS" /\ status = "SUCCESS" /\ file = Some(QuoteFile)
    /\ validationResult =
          Some(ValidationResult(TRUE, FALSE, Some(QuoteModelData.volume_cm3),
                                Some(QuoteModelData.dimensions_mm)))
    /\ originalValidationResult = validationResult
    /\ rotation = <<0, 0, 0>> /\ apiError = Null /\ analysisStarted = TRUE
    /\ aiSupportPercent = Some(I(25)) /\ rawQuote = Null /\ selectedMaterialId = "pla"
    /\ modelData = Some(QuoteModelData) /\ analysisTriggered = TRUE /\ dimsTimer = FALSE
    /\ calls = {} /\ uploads = 1

MaterialOf(id) == CHOOSE m \in Range(DEFAULT_SETTINGS.materials) : m.id = id

QuoteInit ==
    /\ OptionsIdle
    /\ SimIdle
    /\ GeomIdle
    /\ AdminIdle
    /\ SceneIdle
    /\ QuoteStart
    /\ pMaterial = MaterialOf(selectedMaterialId)
    /\ pRawQuote = Null
    /\ quoteData = Null
    /\ quotedOptions = Null
    /\ quantity = 1
    /\ language \in {"fa", "en"}
    /\ pricingTiers = DEFAULT_SETTINGS.pricingTiers
    /\ prices = PriceMemo(Null, 1, Null, pricingTiers, language)

\* calculateQuoteLocally on the current selections, as calculateAndSetQuote
\* calls it (lines 580-586).
QuoteSimulation(materialId, nozzleId, layerHeight, infill, wallCount) ==
    calculateQuoteLocally(
        validationResult[1], MaterialOf(materialId),
        (CHOOSE n \in Range(DEFAULT_SETTINGS.nozzles) : n.id = nozzleId).value,
        layerHeight, infill, wallCount, DEFAULT_SETTINGS,
        IF aiSupportPercent # Null THEN aiSupportPercent[1]
        ELSE DEFAULT_SETTINGS.support_overhead_percent)

\* Lines 572-634: calculateAndSetQuote, with the result raw of the simulator.
SetQuote(raw) ==
    IF raw.threw
    THEN /\ apiError' = Some("error_calculating_quote")
         /\ status' = "ERROR"
         /\ rawQuote' = Null /\ pRawQuote' = Null
         /\ quoteData' = Null
         /\ quotedOptions' = Null
    ELSE /\ apiError' = Null
         /\ status' = "SUCCESS"
         /\ rawQuote' = raw.value /\ pRawQuote' = raw.value
         /\ quoteData' = Some(QuoteData(raw.value[1], pMaterial, DEFAULT_SETTINGS, language))
         /\ quotedOptions' = Some(PriceCurrentOptions)

calculateAndSetQuote ==
    /\ IF GeometryMissing(validationResult)
       THEN UNCHANGED <<status, apiError, rawQuote, pRawQuote, quoteData, quotedOptions>>
       ELSE SetQuote(QuoteSimulation(selectedMaterialId, selectedNozzleId,
                                     selectedLayerHeight, selectedInfill,
                                     selectedWallCount))
    /\ PriceRender(pRawQuote', quantity, quoteData', language)
    /\ UNCHANGED <<file, validationResult, originalValidationResult, rotation,
                   analysisStarted, aiSupportPercent, selectedMaterialId, viewerVars,
                   calls, uploads, pMaterial, quantity, language, optionVars>>

\* handleRequestQuote (lines 644-647) and the effect it starts.
QuoteRequest ==
    /\ step = "OPTIONS"
    /\ step' = "QUOTE"
    /\ calculateAndSetQuote

\* The button shown for a stale quote (lines 944-952) and the effect it
\* starts.
QuoteUpdate ==
    /\ step = "QUOTE"
    /\ quoteIsStale(quotedOptions, PriceCurrentOptions)
    /\ step' = step
    /\ calculateAndSetQuote

\* PrintOptions, shown in the steps OPTIONS and QUOTE: an option is changed.
\* None of them is read by the price memo.
OptionChange ==
    /\ step \in {"OPTIONS", "QUOTE"}
    /\ optionChanges < MaxOptionChanges
    /\ optionChanges' = optionChanges + 1
    /\ UNCHANGED <<step, status, file, validationResult, originalValidationResult,
                   rotation, apiError, analysisStarted, aiSupportPercent, rawQuote,
                   viewerVars, calls, uploads, pRawQuote, quoteData, quotedOptions,
                   quantity, language, pricingTiers, prices>>

QuoteMaterialChange ==
    /\ OptionChange
    /\ \E m \in Range(DEFAULT_SETTINGS.materials) :
          m.id # selectedMaterialId /\ selectedMaterialId' = m.id /\ pMaterial' = m
    /\ UNCHANGED <<selectedNozzleId, selectedLayerHeight, selectedInfill,
                   selectedWallCount>>

onNozzleChange ==
    /\ OptionChange
    /\ \E o \in Range(DEFAULT_SETTINGS.nozzles) :
          o.id # selectedNozzleId /\ selectedNozzleId' = o.id
    /\ UNCHANGED <<selectedMaterialId, pMaterial, selectedLayerHeight, selectedInfill,
                   selectedWallCount>>

onLayerHeightChange ==
    /\ OptionChange
    /\ \E o \in Range(DEFAULT_SETTINGS.layerHeights) :
          o.value # selectedLayerHeight /\ selectedLayerHeight' = o.value
    /\ UNCHANGED <<selectedMaterialId, pMaterial, selectedNozzleId, selectedInfill,
                   selectedWallCount>>

onInfillChange ==
    /\ OptionChange
    /\ \E o \in Range(DEFAULT_SETTINGS.infills) :
          o.value # selectedInfill /\ selectedInfill' = o.value
    /\ UNCHANGED <<selectedMaterialId, pMaterial, selectedNozzleId, selectedLayerHeight,
                   selectedWallCount>>

onWallCountChange ==
    /\ OptionChange
    /\ \E o \in Range(DEFAULT_SETTINGS.wallCounts) :
          o.value # selectedWallCount /\ selectedWallCount' = o.value
    /\ UNCHANGED <<selectedMaterialId, pMaterial, selectedNozzleId, selectedLayerHeight,
                   selectedInfill>>

\* The quantity input of step QUOTE (line 1031).
QuoteSetQuantity ==
    /\ step = "QUOTE"
    /\ \E q \in 1..MaxQuantity :
          /\ q # quantity
          /\ quantity' = q
          /\ PriceRender(pRawQuote, q, quoteData, language)
    /\ UNCHANGED <<wizVars, pMaterial, pRawQuote, quoteData, quotedOptions, language,
                   optionVars>>

\* handleGoBack in step QUOTE (lines 542-548).
QuoteGoBack ==
    /\ step = "QUOTE"
    /\ step' = "OPTIONS"
    /\ status' = "SUCCESS"
    /\ apiError' = Null
    /\ rawQuote' = Null /\ pRawQuote' = Null
    /\ quoteData' = Null
    /\ quotedOptions' = Null
    /\ PriceRender(Null, quantity, Null, language)
    /\ UNCHANGED <<file, validationResult, originalValidationResult, rotation,
                   analysisStarted, aiSupportPercent, selectedMaterialId, viewerVars,
                   calls, uploads, pMaterial, quantity, language, optionVars>>

QuoteNext ==
    \/ QuoteRequest /\ UNCHANGED <<simVars, geomVars, adminVars, sceneVars>>
    \/ QuoteUpdate /\ UNCHANGED <<simVars, geomVars, adminVars, sceneVars>>
    \/ QuoteMaterialChange /\ UNCHANGED <<simVars, geomVars, adminVars, sceneVars>>
    \/ onNozzleChange /\ UNCHANGED <<simVars, geomVars, adminVars, sceneVars>>
    \/ onLayerHeightChange /\ UNCHANGED <<simVars, geomVars, adminVars, sceneVars>>
    \/ onInfillChange /\ UNCHANGED <<simVars, geomVars, adminVars, sceneVars>>
    \/ onWallCountChange /\ UNCHANGED <<simVars, geomVars, adminVars, sceneVars>>
    \/ QuoteSetQuantity /\ UNCHANGED <<simVars, geomVars, adminVars, sceneVars>>
    \/ QuoteGoBack /\ UNCHANGED <<simVars, geomVars, adminVars, sceneVars>>

QuoteSpec == QuoteInit /\ [][QuoteNext]_vars

----------------------------------------------------------------------------
(* Properties of the quote, checked under QuoteSpec *)

\* The quote of the current selections, computed afresh.
QuoteOfCurrentOptions ==
    QuoteData(QuoteSimulation(selectedMaterialId, selectedNozzleId, selectedLayerHeight,
                              selectedInfill, selectedWallCount).value[1],
              MaterialOf(selectedMaterialId), DEFAULT_SETTINGS, language)

----------------------------------------------------------------------------
(* The currency of the amounts shown, checked under PriceSpec *)

\* The price of a kilogram and of a machine hour in the currency that the
\* amounts are labelled with: Toman for "fa", USD for "en".
LabelledPricePerKg ==
    IF language = "fa" THEN pMaterial.price_per_kg.toman ELSE pMaterial.price_per_kg.usd
LabelledRatePerHour ==
    IF language = "fa" THEN DEFAULT_SETTINGS.machineRatePerHour.toman
    ELSE DEFAULT_SETTINGS.machineRatePerHour.usd

\* C29: the amounts of a quote that is shown are computed with the rates of
\* the currency they are labelled with, also after the language has been
\* toggled: the material cost is grams/1000 x the price per kilogram and the
\* machine cost is hours x the machine rate, both in the current currency.
C29_AmountsInLabelledCurrency ==
    Displayed # Null =>
        /\ quoteData[1].material_cost =
             NMul(NDiv(pRawQuote[1].material_grams, I(1000)), LabelledPricePerKg)
        /\ quoteData[1].machine_time_cost =
             NMul(pRawQuote[1].time_hours, LabelledRatePerHour)

====
